---- MODULE Spec2Model ----
(***************************************************************************)
(* The Intcode machine of advent-of-code-2019.                             *)
(*                                                                         *)
(*   Spec      the day11.py machine (MachineState, Instruction subclasses, *)
(*             read_from_instruction_table, exec_program) and the two      *)
(*             exception handlers of SpaceShipGrid.run_program that        *)
(*             resume it.                                                  *)
(*   SpecDay2  the day2a.py exec_program (Add, Multiply, exit only).       *)
(*                                                                         *)
(* Python lists are modelled as sequences: address a is element a + 1.     *)
(* Python's negative indices, slices, floor division and modulo are        *)
(* modelled as Python computes them.                                       *)
(***************************************************************************)
EXTENDS Integers, Sequences, FiniteSets, TLC

VARIABLES
    memory,           \* MachineState.memory
    pc,               \* MachineState.pc
    relative_base,    \* MachineState.relative_base
    input_stream,     \* MachineState.input_stream  (queue contents, head first)
    output_stream,    \* MachineState.output_stream (queue contents, head first)
    yield_on_output,  \* MachineState.yield_on_output
    inst,             \* the Instruction object of the current loop iteration
    exc,              \* the exception that left exec_program, or "none"
    exit_value,       \* HaltException.exit_value as <<v>>, <<>> while none was raised
    phase,            \* next call of the loop body: "fetch", "read" or "exec"
    before,           \* history: the machine state when the current word was fetched
    nfetch,           \* history: number of fetches made so far
    hist,             \* history: the initial program, the inputs run_program
                      \* supplied and the outputs it took, in order
    d2_program,       \* day2a: the list passed to exec_program (history)
    d2_memory,        \* day2a: exec_program's memory
    d2_pc,            \* day2a: exec_program's pc
    d2_inst,          \* day2a: exec_program's inst
    d2_state,         \* day2a: "idle", "start", "loop", "returned" or the exception raised
    ch_variant,       \* day7: the file whose amplifiers run, "day7a" or "day7b"
    ch_perm,          \* day7: perm of search_for_largest_output (history)
    ch_lists,         \* day7: the list objects: 0 is initial_input, k is the
                      \*       list that copy.copy made for amplifier k
    ch_pc,            \* day7: MachineState.pc of each amplifier
    ch_result,        \* day7: how each amplifier's last exec_program call ended
    ch_queues,        \* day7: the Queue objects, head first
    ch_next,          \* day7: the driver's next statement
    max_value,        \* day7: max_value of search_for_largest_output
    d5_program,       \* day5: the list passed to exec_program (history)
    d5_memory,        \* day5: MachineState.memory
    d5_pc,            \* day5: MachineState.pc
    d5_stdin,         \* day5: the lines input() has still to return
    d5_stdout,        \* day5: the values printed
    d5_exc,           \* day5: the exception raised in the loop, or "none"
    d5_exit,          \* day5: what exec_program returned as <<v>>, else <<>>
    d5_iter,          \* day5: iterations of the loop completed (history)
    io_get,           \* StdIoDevice: where the io_get generator stands
    io_put,           \* StdIoDevice: where the io_put generator stands
    io_stdin,         \* StdIoDevice: the lines input() has still to return
    io_stdout,        \* StdIoDevice: the values printed
    io_read,          \* StdIoDevice: the values ReadInput.exec received
    io_exc,           \* StdIoDevice: the exception a device call raised, or "none"
    ar_grid,          \* day13: OutputScreen.grid, the cells set so far
    ar_ball_pos,      \* day13: OutputScreen.ball_pos, <<>> for None
    ar_paddle_pos,    \* day13: OutputScreen.paddle_pos, <<>> for None
    ar_score,         \* day13: OutputScreen.score
    ar_raw,           \* day13: the values OutputScreen.io_put holds of the current group
    ar_pos,           \* day13: JoyStick.pos
    ar_read,          \* day13: the values ReadInput.exec received
    ar_count,         \* day13: the number of device calls made (history)
    ar_sent,          \* day13: the values WriteOutput.exec sent (history)
    ar_exc,           \* day13: the exception a device call raised, or "none"
    w3_wire1,         \* day3a: wire1_path, a list of [cardinal_dir, dist]
    w3_wire2,         \* day3a: wire2_path
    w3_state,         \* day3a: "idle", "called" or "returned"
    w3_intersections, \* day3a: what find_intersections returned
    w3_closest,       \* day3a: the distance returned as <<d>>, <<>> when min() raised
    mn_start,         \* day12b: the start positions of the moons (history)
    mn_position,      \* day12b: Moon.position of each moon, as <<x, y, z>>
    mn_velocity,      \* day12b: Moon.velocity of each moon
    mn_step,          \* day12b: GravitySimulation.step
    mn_loop,          \* day12b: what find_global_loop returned as <<n>>, <<>> before the call
    pr_grid,          \* day11: SpaceShipGrid.grid, the set of <<<<x, y>>, colour>> items
    pr_x,             \* day11: robot_location.x
    pr_y,             \* day11: robot_location.y
    pr_dir,           \* day11: robot_location.dir
    pr_colour,        \* day11: raw_color of run_program as <<c>>, <<>> while there is none
    pr_painted,       \* day11: the panels run_program has set (history)
    pr_total,         \* day11: the total run_program printed as <<n>>, <<>> before
    o6_inputs,        \* day6b: inputs, each line as <<orbitee, orbiter>>
    o6_distance,      \* day6b: the distance printed as <<n>>, <<>> before
    o6_exc            \* day6b: "idle", "none" or the exception that ended the script

vm == <<memory, pc, relative_base, input_stream, output_stream,
        yield_on_output, inst, exc, exit_value, phase, before, nfetch, hist>>
d2 == <<d2_program, d2_memory, d2_pc, d2_inst, d2_state>>
ch == <<ch_variant, ch_perm, ch_lists, ch_pc, ch_result, ch_queues, ch_next,
        max_value>>
d5 == <<d5_program, d5_memory, d5_pc, d5_stdin, d5_stdout, d5_exc, d5_exit,
        d5_iter>>
io == <<io_get, io_put, io_stdin, io_stdout, io_read, io_exc>>
ar == <<ar_grid, ar_ball_pos, ar_paddle_pos, ar_score,
        ar_raw, ar_pos, ar_read, ar_count, ar_sent, ar_exc>>
w3 == <<w3_wire1, w3_wire2, w3_state, w3_intersections, w3_closest>>
mn == <<mn_start, mn_position, mn_velocity, mn_step, mn_loop>>
pr == <<pr_grid, pr_x, pr_y, pr_dir, pr_colour, pr_painted, pr_total>>
o6 == <<o6_inputs, o6_distance, o6_exc>>
not_vm == <<d2, ch, d5, io, ar, w3, mn, pr, o6>>
not_d2 == <<vm, ch, d5, io, ar, w3, mn, pr, o6>>
not_ch == <<vm, d2, d5, io, ar, w3, mn, pr, o6>>
not_d5 == <<vm, d2, ch, io, ar, w3, mn, pr, o6>>
not_io == <<vm, d2, ch, d5, ar, w3, mn, pr, o6>>
not_ar == <<vm, d2, ch, d5, io, w3, mn, pr, o6>>
not_w3 == <<vm, d2, ch, d5, io, ar, mn, pr, o6>>
not_mn == <<vm, d2, ch, d5, io, ar, w3, pr, o6>>
not_pr == <<vm, d2, ch, d5, io, ar, w3, mn, o6>>
not_o6 == <<vm, d2, ch, d5, io, ar, w3, mn, pr>>
vars == <<vm, d2, ch, d5, io, ar, w3, mn, pr, o6>>

(***************************************************************************)
(* Bounds                                                                  *)
(***************************************************************************)
MaxFetch == 4      \* fetches explored per run
MaxParam == 1      \* raw parameter values range over -1 .. MaxParam, and FarAddr
FarAddr == 8       \* a raw parameter value beyond the end of every initial program
MaxAddr2 == 4      \* day2a: addresses of the generated programs range over 0 .. MaxAddr2
MaxFetchProg1 == 90  \* fetches explored per run of test_prog1_input

(***************************************************************************)
(* Python list primitives                                                  *)
(***************************************************************************)
Max(a, b) == IF a >= b THEN a ELSE b
Min(a, b) == IF a <= b THEN a ELSE b

\* list[i] raises IndexError unless -len <= i < len
PyInRange(list, i) == -Len(list) <= i /\ i < Len(list)

\* the element position list[i] denotes (negative i counts from the end)
PyPos(list, i) == IF i >= 0 THEN i + 1 ELSE Len(list) + i + 1

PyGet(list, i) == list[PyPos(list, i)]

PySet(list, i, v) == [list EXCEPT ![PyPos(list, i)] = v]

\* a slice bound, clamped as list[lo:hi] clamps it
PyClamp(list, i) == IF i < 0 THEN Max(Len(list) + i, 0) ELSE Min(i, Len(list))

\* list[lo:hi]
PySlice(list, lo, hi) ==
    LET start == PyClamp(list, lo)
        stop  == PyClamp(list, hi)
    IN  IF stop <= start THEN <<>> ELSE SubSeq(list, start + 1, stop)

ZerosAreOnes(n) == [i \in 1..n |-> 1]

\* [0] * n
Zeros(n) == [i \in 1..n |-> 0]

(***************************************************************************)
(* day11.py: Instruction                                                   *)
(***************************************************************************)
POSITION_MODE == 0
IMMEDIATE_MODE == 1
RELATIVE_MODE == 2

KnownOpcodes == {1, 2, 3, 4, 5, 6, 7, 8, 9, 99}

\* _param_count of the subclass read_from_instruction_table returns
ParamCount(opcode) ==
    CASE opcode \in {1, 2, 7, 8} -> 3
      [] opcode \in {5, 6}       -> 2
      [] opcode \in {3, 4, 9}    -> 1
      [] OTHER                   -> 0

InstOpcodeOneDigit(raw) == raw % 10

\* inst_opcode = raw_instruction_value % 100
InstOpcode(raw) == raw % 100

\* inst_mode = raw_instruction_value // 100
InstMode(raw) == raw \div 100

\* curr_mode = mode_copy % 10
CurrMode(mode_copy) == mode_copy % 10

NextModeCopySkipsDigit(mode_copy) == mode_copy \div 100

\* mode_copy //= 10
NextModeCopy(mode_copy) == mode_copy \div 10

MemAddrNoBase(curr_mode, r, rb) == r

\* mem_addr of a position- or relative-mode parameter
MemAddr(curr_mode, r, rb) ==
    IF curr_mode = POSITION_MODE THEN r ELSE rb + r

ExtendOneCellMore(mem, mem_addr) ==
    IF mem_addr >= Len(mem)
    THEN mem \o Zeros((mem_addr + 2) - Len(mem))
    ELSE mem

\* if mem_addr >= len(state.memory): state.memory.extend([0] * num_needed)
Extend(mem, mem_addr) ==
    IF mem_addr >= Len(mem)
    THEN mem \o Zeros((mem_addr + 1) - Len(mem))
    ELSE mem

StoreAddrNever(register_values, i, curr_mode, mem_addr) == register_values

\* self.register_values[i] = mem_addr, done for a relative-mode parameter
StoreAddr(register_values, i, curr_mode, mem_addr) ==
    IF curr_mode = RELATIVE_MODE
    THEN [register_values EXCEPT ![i] = mem_addr]
    ELSE register_values

NoInst == [opcode |-> -1, mode |-> 0, register_values |-> <<>>,
           operation_values |-> <<>>, curr_modes |-> <<>>]

ImmediateOperandGrows(st, r) ==
    [st EXCEPT !.operation_values = Append(@, r), !.memory = Extend(@, r)]

\* the immediate branch of read_registers: the raw value is the operand
ImmediateOperand(st, r) ==
    [st EXCEPT !.operation_values = Append(@, r)]

\* The for loop of read_registers from parameter i on.  st carries the memory,
\* register_values, operation_values and mode_copy of the iteration, and
\* curr_modes, the curr_mode of each iteration made (history).
RECURSIVE ReadLoop(_, _, _)
ReadLoop(st, rb, i) ==
    IF i > Len(st.register_values)
    THEN [st EXCEPT !.exc = "none"]
    ELSE
      LET r         == st.register_values[i]
          curr_mode == CurrMode(st.mode_copy)
          st1       == [st EXCEPT !.mode_copy = NextModeCopy(st.mode_copy),
                                  !.curr_modes = Append(st.curr_modes, curr_mode)]
      IN
      IF curr_mode = IMMEDIATE_MODE
      THEN ReadLoop(ImmediateOperand(st1, r), rb, i + 1)
      ELSE IF curr_mode \notin {POSITION_MODE, RELATIVE_MODE}
      THEN [st1 EXCEPT !.exc = "AssertionError"]
      ELSE
        LET mem_addr == MemAddr(curr_mode, r, rb)
            regs     == StoreAddr(st.register_values, i, curr_mode, mem_addr)
            mem      == Extend(st.memory, mem_addr)
            st2      == [st1 EXCEPT !.register_values = regs, !.memory = mem]
        IN
        IF ~PyInRange(mem, mem_addr)
        THEN [st2 EXCEPT !.exc = "IndexError"]
        ELSE ReadLoop([st2 EXCEPT !.operation_values =
                                     Append(st.operation_values, PyGet(mem, mem_addr))],
                      rb, i + 1)

(***************************************************************************)
(* day11.py: the instructions' exec                                        *)
(***************************************************************************)
ArithValueLessOrEqual(opcode, a, b) ==
    CASE opcode = 1 -> a + b
      [] opcode = 2 -> a * b
      [] opcode = 7 -> IF a <= b THEN 1 ELSE 0
      [] opcode = 8 -> IF a = b THEN 1 ELSE 0

\* the value Add, Multiply, LessThan and Equals store
ArithValue(opcode, a, b) ==
    CASE opcode = 1 -> a + b
      [] opcode = 2 -> a * b
      [] opcode = 7 -> IF a < b THEN 1 ELSE 0
      [] opcode = 8 -> IF a = b THEN 1 ELSE 0

JumpTakenIfTrue(opcode, a) == a /= 0

\* the condition of JumpIfTrue / JumpIfFalse
JumpTaken(opcode, a) ==
    IF opcode = 5 THEN a /= 0 ELSE a = 0

NoPrev == [opcode |-> -1, operation_values |-> <<>>, relative_base |-> 0]

\* the machine state at a fetch and, in prev, the instruction completed just
\* before it with the relative_base it was fetched under (NoInst at the
\* start and after a resume)
Snapshot == [memory |-> memory, pc |-> pc, relative_base |-> relative_base,
             input_stream |-> input_stream, output_stream |-> output_stream,
             prev |-> [opcode |-> inst.opcode,
                       operation_values |-> inst.operation_values,
                       relative_base |-> before.relative_base]]

(***************************************************************************)
(* Initial programs                                                        *)
(***************************************************************************)
\* the three modes read_registers knows, and a digit it does not
ModeDigits == {POSITION_MODE, IMMEDIATE_MODE, RELATIVE_MODE, 3}
ParamVals == (-1..MaxParam) \cup {FarAddr}

Word(opcode, m0, m1, m2) == opcode + 100 * m0 + 1000 * m1 + 10000 * m2

\* an optional leading SetRelativeBase with an immediate operand
Prefixes == {<<>>, <<109, -1>>}

ArithBodies ==
    {<<Word(op, m[1], m[2], m[3]), p[1], p[2], p[3], 99>> :
        op \in {1, 2, 7, 8},
        m \in ModeDigits \X ModeDigits \X ModeDigits,
        p \in ParamVals \X ParamVals \X ParamVals}

JumpBodies ==
    {<<Word(op, m[1], m[2], 0), p[1], p[2]>> \o tail :
        op \in {5, 6},
        m \in ModeDigits \X ModeDigits,
        p \in ParamVals \X ParamVals,
        tail \in {<<>>, <<99>>, <<104, 5, 99>>}}

OneParamBodies ==
    {<<Word(op, m, 0, 0), p>> \o tail :
        op \in {3, 4, 9}, m \in ModeDigits, p \in ParamVals,
        tail \in {<<99>>, <<4, 0, 99>>, <<204, 1, 99>>}}

\* programs that end inside an instruction, and words that are no instruction
ShortBodies ==
    {<<w>> : w \in {0, 1, 3, 4, 5, 6, 9, 98, 99, 104, -1, -99}}
      \cup {<<w, 0>> : w \in {1, 5, 1105, 1106, 8}}
      \cup {<<w, 0, 0>> : w \in {1, 2, 1101}}

\* a jump to address -1 that lands on an Input word in the last cell, whose
\* parameter is then the first word of the program
WrapBodies == {<<105, 99, 3, -1, 3>>}

\* a Halt word with further instructions behind it
HaltThenBodies == {<<99, 4, 0, 99>>}

\* two Input instructions and an Output
TwoInputBodies == {<<3, 0, 3, 1, 4, 0, 99>>}

Programs ==
    {pre \o body : pre \in Prefixes,
                   body \in ArithBodies \cup JumpBodies \cup OneParamBodies
                              \cup ShortBodies \cup WrapBodies
                              \cup HaltThenBodies \cup TwoInputBodies}

(***************************************************************************)
(* day2a.py: exec_program                                                  *)
(***************************************************************************)
\* class Opcode(Enum): add = 1, multiply = 2, exit = 99
OpcodeValues == {1, 2, 99}

D2ValueAddOnly(opcode, r1_val, r2_val) == r1_val + r2_val

\* the value the loop body stores at memory[out]
D2Value(opcode, r1_val, r2_val) ==
    IF opcode = 1 THEN r1_val + r2_val ELSE r1_val * r2_val

\* the lists the asserts at the end of day2a.py run, with the results they expect
D2Asserted ==
    { [program |-> <<1, 0, 0, 0, 99>>, result |-> <<2, 0, 0, 0, 99>>],
      [program |-> <<2, 3, 0, 3, 99>>, result |-> <<2, 3, 0, 6, 99>>],
      [program |-> <<2, 4, 4, 5, 99, 0>>, result |-> <<2, 4, 4, 5, 99, 9801>>],
      [program |-> <<1, 1, 1, 4, 99, 5, 6, 0, 99>>,
       result  |-> <<30, 1, 1, 4, 2, 5, 6, 0, 99>>] }

Addrs2 == 0..MaxAddr2

D2Programs ==
    {r.program : r \in D2Asserted}
      \cup {<<op, a[1], a[2], a[3], 99>> \o tail :
               op \in {1, 2}, a \in Addrs2 \X Addrs2 \X Addrs2,
               tail \in {<<>>, <<3>>, <<2, 0, 5, 0, 99>>}}
      \cup {<<>>, <<99>>, <<1>>, <<3, 0, 0, 0, 99>>, <<1, 0, 0>>, <<1, 0, 0, 0>>,
            <<1, 0, 0, 9, 99>>, <<2, 9, 0, 0, 99>>, <<1, -1, -5, -2, 99>>}

D2Idle ==
    /\ d2_program = <<>>
    /\ d2_memory = <<>>
    /\ d2_pc = 0
    /\ d2_inst = 0
    /\ d2_state = "idle"

\* search_for_largest_output is not called
ChIdle ==
    /\ ch_variant = "none"
    /\ ch_perm = <<>>
    /\ ch_lists = <<>>
    /\ ch_pc = <<>>
    /\ ch_result = <<>>
    /\ ch_queues = <<>>
    /\ ch_next = "idle"
    /\ max_value = -1

\* day5.py's exec_program is not called
D5Idle ==
    /\ d5_program = <<>>
    /\ d5_memory = <<>>
    /\ d5_pc = 0
    /\ d5_stdin = <<>>
    /\ d5_stdout = <<>>
    /\ d5_exc = "idle"
    /\ d5_exit = <<>>
    /\ d5_iter = 0

\* exec_program is called with a list
D2Init ==
    /\ d2_program \in D2Programs
    /\ d2_memory = d2_program
    /\ d2_pc = 0
    /\ d2_inst = 0
    /\ d2_state = "start"

\* inst = Opcode(memory[0]); pc = 1
D2Begin ==
    /\ d2_state = "start"
    /\ IF ~PyInRange(d2_memory, 0)
       THEN d2_state' = "IndexError" /\ UNCHANGED <<d2_inst, d2_pc>>
       ELSE IF PyGet(d2_memory, 0) \notin OpcodeValues
       THEN d2_state' = "ValueError" /\ UNCHANGED <<d2_inst, d2_pc>>
       ELSE /\ d2_inst' = PyGet(d2_memory, 0)
            /\ d2_pc' = 1
            /\ d2_state' = "loop"
    /\ UNCHANGED <<d2_program, d2_memory>>
    /\ UNCHANGED not_d2

\* one iteration of while inst != Opcode.exit
D2Body ==
    /\ d2_state = "loop"
    /\ d2_inst /= 99
    /\ LET params == PySlice(d2_memory, d2_pc, d2_pc + 3)
           pc1    == d2_pc + 3
       IN
       IF Len(params) /= 3
       THEN \* (r1, r2, out) = memory[pc:pc + 3] cannot unpack
            d2_state' = "ValueError" /\ UNCHANGED <<d2_memory, d2_pc, d2_inst>>
       ELSE
         LET r1 == params[1]
             r2 == params[2]
             out == params[3]
         IN
         IF ~PyInRange(d2_memory, r1) \/ ~PyInRange(d2_memory, r2)
               \/ ~PyInRange(d2_memory, out)
         THEN /\ d2_state' = "IndexError"
              /\ d2_pc' = pc1
              /\ UNCHANGED <<d2_memory, d2_inst>>
         ELSE
           LET mem == PySet(d2_memory, out,
                            D2Value(d2_inst, PyGet(d2_memory, r1), PyGet(d2_memory, r2)))
           IN  /\ d2_memory' = mem
               /\ IF ~PyInRange(mem, pc1)
                  THEN d2_state' = "IndexError" /\ d2_pc' = pc1 /\ UNCHANGED d2_inst
                  ELSE IF PyGet(mem, pc1) \notin OpcodeValues
                  THEN d2_state' = "ValueError" /\ d2_pc' = pc1 /\ UNCHANGED d2_inst
                  ELSE /\ d2_inst' = PyGet(mem, pc1)
                       /\ d2_pc' = pc1 + 1
                       /\ UNCHANGED d2_state
    /\ UNCHANGED d2_program
    /\ UNCHANGED not_d2

\* return memory
D2Return ==
    /\ d2_state = "loop"
    /\ d2_inst = 99
    /\ d2_state' = "returned"
    /\ UNCHANGED <<d2_program, d2_memory, d2_pc, d2_inst>>
    /\ UNCHANGED not_d2

NextDay2 == D2Begin \/ D2Body \/ D2Return

(***************************************************************************)
(* day11.py: MachineState.__init__ and the loop of exec_program            *)
(***************************************************************************)
VmInit ==
    /\ memory \in Programs
    /\ pc = 0
    /\ relative_base = 0
    /\ input_stream = <<>>
    /\ output_stream = <<>>
    /\ yield_on_output \in IF \E i \in 1..Len(memory) : memory[i] % 100 = 4
                          THEN BOOLEAN ELSE {TRUE}
    /\ inst = NoInst
    /\ exc = "none"
    /\ phase = "fetch"
    /\ before = [memory |-> memory, pc |-> 0, relative_base |-> 0,
                 input_stream |-> <<>>, output_stream |-> <<>>, prev |-> NoPrev]
    /\ nfetch = 0
    /\ exit_value = <<>>
    /\ hist = [program |-> memory, supplied |-> <<>>, taken |-> <<>>]

\* no machine is constructed
VmIdle ==
    /\ memory = <<>>
    /\ pc = 0
    /\ relative_base = 0
    /\ input_stream = <<>>
    /\ output_stream = <<>>
    /\ yield_on_output = FALSE
    /\ inst = NoInst
    /\ exc = "none"
    /\ phase = "idle"
    /\ before = [memory |-> <<>>, pc |-> 0, relative_base |-> 0,
                 input_stream |-> <<>>, output_stream |-> <<>>, prev |-> NoPrev]
    /\ nfetch = 0
    /\ exit_value = <<>>
    /\ hist = [program |-> <<>>, supplied |-> <<>>, taken |-> <<>>]

\* no machine is bound to a StdIoDevice
IoIdle ==
    /\ io_get = "none"
    /\ io_put = "none"
    /\ io_stdin = <<>>
    /\ io_stdout = <<>>
    /\ io_read = <<>>
    /\ io_exc = "idle"

\* no arcade cabinet is built
ArIdle ==
    /\ ar_grid = <<>>
    /\ ar_ball_pos = <<>>
    /\ ar_paddle_pos = <<>>
    /\ ar_score = 0
    /\ ar_raw = <<>>
    /\ ar_pos = 0
    /\ ar_read = <<>>
    /\ ar_count = 0
    /\ ar_sent = <<>>
    /\ ar_exc = "idle"

\* find_intersection_dist_closest_to_origin is not called
W3Idle ==
    /\ w3_wire1 = <<>>
    /\ w3_wire2 = <<>>
    /\ w3_state = "idle"
    /\ w3_intersections = <<>>
    /\ w3_closest = <<>>

\* no GravitySimulation is built
MnIdle ==
    /\ mn_start = <<>>
    /\ mn_position = <<>>
    /\ mn_velocity = <<>>
    /\ mn_step = 0
    /\ mn_loop = <<>>

\* no SpaceShipGrid is built
PrIdle ==
    /\ pr_grid = {}
    /\ pr_x = 0
    /\ pr_y = 0
    /\ pr_dir = 0
    /\ pr_colour = <<>>
    /\ pr_painted = {}
    /\ pr_total = <<>>

\* day6b.py is not run
O6Idle ==
    /\ o6_inputs = <<>>
    /\ o6_distance = <<>>
    /\ o6_exc = "idle"

\* every program but the one named g is left alone
AllIdleExcept(g) ==
    /\ IF g = "vm" THEN TRUE ELSE VmIdle
    /\ IF g = "d2" THEN TRUE ELSE D2Idle
    /\ IF g = "ch" THEN TRUE ELSE ChIdle
    /\ IF g = "d5" THEN TRUE ELSE D5Idle
    /\ IF g = "io" THEN TRUE ELSE IoIdle
    /\ IF g = "ar" THEN TRUE ELSE ArIdle
    /\ IF g = "w3" THEN TRUE ELSE W3Idle
    /\ IF g = "mn" THEN TRUE ELSE MnIdle
    /\ IF g = "pr" THEN TRUE ELSE PrIdle
    /\ IF g = "o6" THEN TRUE ELSE O6Idle

Init == VmInit /\ AllIdleExcept("vm")

\* bound: fetches explored per run of FlipAndTurn
MaxFetchPaint == 45

\* a paint program: five times, read the colour of the panel, paint it
\* white if it was black and black otherwise, and turn by the colour read
FlipAndTurn ==
    <<3, 18, 1008, 18, 0, 19, 4, 19, 4, 18, 1001, 20, -1, 20,
      1005, 20, 0, 99, 0, 0, 5>>

\* read_from_instruction_table
\* test_prog1_input of day9b.py
test_prog1_input ==
    <<109, 1, 204, -1, 1001, 100, 1, 100, 1008, 100, 16, 101, 1006, 101, 0, 99>>

\* the fetches explored in the run of a program
FetchBound(program) ==
    IF program = test_prog1_input THEN MaxFetchProg1
    ELSE IF program = FlipAndTurn THEN MaxFetchPaint
    ELSE MaxFetch

Fetch ==
    /\ phase = "fetch"
    /\ exc = "none"
    /\ nfetch < FetchBound(hist.program)
    /\ nfetch' = nfetch + 1
    /\ before' = Snapshot
    /\ IF ~PyInRange(memory, pc)
       THEN /\ exc' = "IndexError"
            /\ inst' = NoInst
            /\ UNCHANGED <<pc, phase>>
       ELSE LET raw_instruction_value == PyGet(memory, pc)
                inst_opcode == InstOpcode(raw_instruction_value)
                inst_mode   == InstMode(raw_instruction_value)
            IN  /\ pc' = pc + 1
                /\ IF inst_opcode \in KnownOpcodes
                   THEN /\ inst' = [NoInst EXCEPT !.opcode = inst_opcode,
                                                  !.mode = inst_mode]
                        /\ phase' = "read"
                        /\ exc' = exc
                   ELSE /\ exc' = "Exception"
                        /\ inst' = NoInst
                        /\ UNCHANGED phase
    /\ UNCHANGED <<memory, relative_base, input_stream, output_stream,
                   yield_on_output, exit_value, hist>>
    /\ UNCHANGED not_vm

\* Instruction.read_registers
ReadRegisters ==
    /\ phase = "read"
    /\ exc = "none"
    /\ LET n  == ParamCount(inst.opcode)
           st == ReadLoop([memory |-> memory,
                           register_values |-> PySlice(memory, pc, pc + n),
                           operation_values |-> <<>>,
                           curr_modes |-> <<>>,
                           mode_copy |-> inst.mode,
                           exc |-> "none"], relative_base, 1)
       IN  /\ memory' = st.memory
           /\ inst' = [inst EXCEPT !.register_values = st.register_values,
                                   !.operation_values = st.operation_values,
                                   !.curr_modes = st.curr_modes]
           /\ exc' = st.exc
           /\ IF st.exc = "none"
              THEN pc' = pc + n /\ phase' = "exec"
              ELSE UNCHANGED <<pc, phase>>
    /\ UNCHANGED <<relative_base, input_stream, output_stream, yield_on_output,
                   exit_value, before, nfetch, hist>>
    /\ UNCHANGED not_vm

HaltValueLastCell(mem) == PyGet(mem, -1)

\* Halt.exec: the argument of HaltException, state.memory[0]
HaltValue(mem) == PyGet(mem, 0)

\* the exception exec raises before it changes anything, or "none"
ExecRaises ==
    LET regs == inst.register_values
        ops  == inst.operation_values
    IN  CASE inst.opcode \in {1, 2, 7, 8} ->
               IF Len(ops) < 3 \/ ~PyInRange(memory, regs[3])
               THEN "IndexError" ELSE "none"
          [] inst.opcode = 3 ->
               IF input_stream = <<>> THEN "WaitingForInputException"
               ELSE IF Len(regs) < 1 \/ ~PyInRange(memory, regs[1])
               THEN "IndexError" ELSE "none"
          [] inst.opcode = 4 ->
               IF Len(ops) < 1 THEN "IndexError" ELSE "none"
          [] inst.opcode \in {5, 6} ->
               IF Len(ops) < 1 THEN "IndexError"
               ELSE IF JumpTaken(inst.opcode, ops[1]) /\ Len(ops) < 2
               THEN "IndexError" ELSE "none"
          [] inst.opcode = 9 ->
               IF Len(ops) < 1 THEN "IndexError" ELSE "none"
          [] inst.opcode = 99 -> "HaltException"

\* Add.exec, Multiply.exec, LessThan.exec, Equals.exec
ExecArith ==
    /\ inst.opcode \in {1, 2, 7, 8}
    /\ memory' = PySet(memory, inst.register_values[3],
                       ArithValue(inst.opcode, inst.operation_values[1],
                                  inst.operation_values[2]))
    /\ UNCHANGED <<pc, relative_base, input_stream, output_stream, exc>>

\* ReadInput.exec with an input value queued
QueueGetTakesLast(q) == q[Len(q)]

\* the value input_stream.get() returns
QueueGet(q) == Head(q)

ExecReadInput ==
    /\ inst.opcode = 3
    /\ memory' = PySet(memory, inst.register_values[1], QueueGet(input_stream))
    /\ input_stream' = Tail(input_stream)
    /\ UNCHANGED <<pc, relative_base, output_stream, exc>>

ExecWriteOutputRewinds ==
    /\ inst.opcode = 4
    /\ output_stream' = Append(output_stream, inst.operation_values[1])
    /\ exc' = IF yield_on_output THEN "YieldAfterOutputException" ELSE "none"
    /\ pc' = IF yield_on_output THEN pc - 2 ELSE pc
    /\ UNCHANGED <<memory, relative_base, input_stream>>

\* WriteOutput.exec
ExecWriteOutput ==
    /\ inst.opcode = 4
    /\ output_stream' = Append(output_stream, inst.operation_values[1])
    /\ exc' = IF yield_on_output THEN "YieldAfterOutputException" ELSE "none"
    /\ UNCHANGED <<memory, pc, relative_base, input_stream>>

ExecJumpFallsThrough ==
    /\ inst.opcode \in {5, 6}
    /\ UNCHANGED <<memory, pc, relative_base, input_stream, output_stream, exc>>

\* JumpIfTrue.exec, JumpIfFalse.exec
ExecJump ==
    /\ inst.opcode \in {5, 6}
    /\ pc' = IF JumpTaken(inst.opcode, inst.operation_values[1])
             THEN inst.operation_values[2] ELSE pc
    /\ UNCHANGED <<memory, relative_base, input_stream, output_stream, exc>>

NewRelativeBaseAssigned(rb, a) == a

\* SetRelativeBase.exec: state.relative_base += a
NewRelativeBase(rb, a) == rb + a

\* SetRelativeBase.exec
ExecSetRelativeBase ==
    /\ inst.opcode = 9
    /\ relative_base' = NewRelativeBase(relative_base, inst.operation_values[1])
    /\ UNCHANGED <<memory, pc, input_stream, output_stream, exc>>

\* the exec of the fetched instruction
Exec ==
    /\ phase = "exec"
    /\ exc = "none"
    /\ phase' = "fetch"
    /\ IF ExecRaises = "none"
       THEN \/ ExecArith
            \/ ExecReadInput
            \/ ExecWriteOutput
            \/ ExecJump
            \/ ExecSetRelativeBase
       ELSE /\ exc' = ExecRaises
            \* ReadInput: state.pc -= 2 before WaitingForInputException;
            \* input_stream.get() is evaluated before register_values[0]
            /\ pc' = IF ExecRaises = "WaitingForInputException" THEN pc - 2 ELSE pc
            /\ input_stream' = IF inst.opcode = 3 /\ ExecRaises = "IndexError"
                               THEN Tail(input_stream) ELSE input_stream
            /\ UNCHANGED <<memory, relative_base, output_stream>>
    \* Halt.exec: raise HaltException(state.memory[0])
    /\ exit_value' = IF ExecRaises = "HaltException"
                     THEN <<HaltValue(memory)>> ELSE exit_value
    /\ UNCHANGED <<yield_on_output, inst, before, nfetch, hist>>
    /\ UNCHANGED not_vm

Colours == {0, 1}

\* run_program: except WaitingForInputException, then exec_program again
SupplyInput ==
    /\ exc = "WaitingForInputException"
    /\ \E program_input \in Colours :
          /\ input_stream' = Append(input_stream, program_input)
          /\ hist' = [hist EXCEPT !.supplied = Append(@, program_input)]
    /\ exc' = "none"
    /\ inst' = NoInst   \* the Instruction object went with the exception
    /\ UNCHANGED <<memory, pc, relative_base, output_stream, yield_on_output,
                   exit_value, phase, before, nfetch>>
    /\ UNCHANGED not_vm

TakeOutputKeepsIt ==
    /\ exc = "YieldAfterOutputException"
    /\ output_stream' = output_stream
    /\ hist' = [hist EXCEPT !.taken = Append(@, Head(output_stream))]
    /\ exc' = "none"
    /\ inst' = NoInst
    /\ UNCHANGED <<memory, pc, relative_base, input_stream, yield_on_output,
                   exit_value, phase, before, nfetch>>
    /\ UNCHANGED not_vm

\* run_program: except YieldAfterOutputException, then exec_program again
TakeOutput ==
    /\ exc = "YieldAfterOutputException"
    /\ output_stream' = Tail(output_stream)
    /\ hist' = [hist EXCEPT !.taken = Append(@, Head(output_stream))]
    /\ exc' = "none"
    /\ inst' = NoInst   \* the Instruction object went with the exception
    /\ UNCHANGED <<memory, pc, relative_base, input_stream, yield_on_output,
                   exit_value, phase, before, nfetch>>
    /\ UNCHANGED not_vm

Next == Fetch \/ ReadRegisters \/ Exec \/ SupplyInput \/ TakeOutput

Spec == Init /\ [][Next]_vars

InitDay2 == D2Init /\ AllIdleExcept("d2")

SpecDay2 == InitDay2 /\ [][NextDay2]_vars

\* exec_program runs its loop to the end: nothing else is scheduled
FairSpecDay2 == SpecDay2 /\ WF_vars(NextDay2)

(***************************************************************************)
(* day9b.py: the day11.py machine but for ReadInput.exec, which has no test *)
(* of the queue, and exec_program, which catches the three signals and     *)
(* returns None.  phase is "blocked" while the thread waits in Queue.get() *)
(* and "returned" once exec_program has returned.                          *)
(***************************************************************************)
\* MachineState(day9_inputs, input_queue, Queue()) with 2 in the queue, or
\* the empty Queue() and yield_on_output of the test program; a program
\* with an Input word is also run on the queues [7] and [7, 2]
VmInitDay9b ==
    /\ memory \in Programs
    /\ pc = 0
    /\ relative_base = 0
    /\ input_stream \in IF \E i \in 1..Len(memory) : memory[i] % 100 = 3
                       THEN {<<>>, <<2>>, <<7>>, <<7, 2>>} ELSE {<<2>>}
    /\ output_stream = <<>>
    /\ yield_on_output \in IF \E i \in 1..Len(memory) : memory[i] % 100 = 4
                          THEN BOOLEAN ELSE {FALSE}
    /\ inst = NoInst
    /\ exc = "none"
    /\ phase = "fetch"
    /\ before = [memory |-> memory, pc |-> 0, relative_base |-> 0,
                 input_stream |-> input_stream, output_stream |-> <<>>,
                 prev |-> NoPrev]
    /\ nfetch = 0
    /\ exit_value = <<>>
    /\ hist = [program |-> memory, supplied |-> input_stream, taken |-> <<>>]

InitDay9b == VmInitDay9b /\ AllIdleExcept("vm")

\* inst.exec: ReadInput.exec calls input_stream.get(), which waits for a
\* value when the queue is empty; every other exec is that of day11.py
ExecDay9b ==
    IF phase = "exec" /\ exc = "none" /\ inst.opcode = 3 /\ input_stream = <<>>
    THEN /\ phase' = "blocked"
         /\ UNCHANGED <<memory, pc, relative_base, input_stream, output_stream,
                        yield_on_output, inst, exc, exit_value, before, nfetch,
                        hist>>
         /\ UNCHANGED not_vm
    ELSE Exec

\* exec_program: except (WaitingForInputException,
\* YieldAfterOutputException, HaltException): return None
ReturnDay9b ==
    /\ phase = "fetch"
    /\ exc \in {"WaitingForInputException", "YieldAfterOutputException",
                "HaltException"}
    /\ phase' = "returned"
    /\ UNCHANGED <<memory, pc, relative_base, input_stream, output_stream,
                   yield_on_output, inst, exc, exit_value, before, nfetch, hist>>
    /\ UNCHANGED not_vm

\* the caller calls exec_program(machine_state) again on the machine that
\* returned None: the loop starts at the machine's current pc
ResumeDay9b ==
    /\ phase = "returned"
    /\ phase' = "fetch"
    /\ exc' = "none"
    /\ inst' = NoInst
    /\ UNCHANGED <<memory, pc, relative_base, input_stream, output_stream,
                   yield_on_output, exit_value, before, nfetch, hist>>
    /\ UNCHANGED not_vm

NextDay9b == Fetch \/ ReadRegisters \/ ExecDay9b \/ ReturnDay9b \/ ResumeDay9b

SpecDay9b == InitDay9b /\ [][NextDay9b]_vars

\* test_prog1 = MachineState(test_prog1_input, Queue(), Queue(), False),
\* and the same machine with yield_on_output set
VmInitProg1 ==
    /\ memory = test_prog1_input
    /\ pc = 0
    /\ relative_base = 0
    /\ input_stream = <<>>
    /\ output_stream = <<>>
    /\ yield_on_output \in BOOLEAN
    /\ inst = NoInst
    /\ exc = "none"
    /\ phase = "fetch"
    /\ before = [memory |-> memory, pc |-> 0, relative_base |-> 0,
                 input_stream |-> <<>>, output_stream |-> <<>>,
                 prev |-> NoPrev]
    /\ nfetch = 0
    /\ exit_value = <<>>
    /\ hist = [program |-> memory, supplied |-> <<>>, taken |-> <<>>]

InitProg1 == VmInitProg1 /\ AllIdleExcept("vm")

\* exec_program(test_prog1)
SpecProg1 == InitProg1 /\ [][NextDay9b]_vars

(***************************************************************************)
(* day11.py: exec_program and run_program as functions of the machine      *)
(* state, for the comparison of one run with another                       *)
(***************************************************************************)
\* MachineState(memory, input_stream, Queue(), yield_on_output); taken is the
\* sequence of outputs run_program has returned
Machine(mem, inputs, yld) ==
    [memory |-> mem, pc |-> 0, relative_base |-> 0,
     input_stream |-> inputs, output_stream |-> <<>>, yield_on_output |-> yld,
     exc |-> "none", exit_value |-> <<>>, taken |-> <<>>]

\* inst.exec(machine_state) for an instruction with the given opcode,
\* register_values and operation_values
ExecOf(m, opcode, regs, ops) ==
    LET raise(e) == [m EXCEPT !.exc = e]
    IN  CASE opcode \in {1, 2, 7, 8} ->
               IF Len(ops) < 3 \/ ~PyInRange(m.memory, regs[3])
               THEN raise("IndexError")
               ELSE [m EXCEPT !.memory =
                        PySet(@, regs[3], ArithValue(opcode, ops[1], ops[2]))]
          [] opcode = 3 ->
               IF m.input_stream = <<>>
               THEN [m EXCEPT !.pc = @ - 2, !.exc = "WaitingForInputException"]
               ELSE IF Len(regs) < 1 \/ ~PyInRange(m.memory, regs[1])
               THEN [m EXCEPT !.input_stream = Tail(@), !.exc = "IndexError"]
               ELSE [m EXCEPT !.memory = PySet(@, regs[1], Head(m.input_stream)),
                              !.input_stream = Tail(@)]
          [] opcode = 4 ->
               IF Len(ops) < 1
               THEN raise("IndexError")
               ELSE [m EXCEPT !.output_stream = Append(@, ops[1]),
                              !.exc = IF m.yield_on_output
                                      THEN "YieldAfterOutputException" ELSE "none"]
          [] opcode \in {5, 6} ->
               IF Len(ops) < 1
               THEN raise("IndexError")
               ELSE IF ~JumpTaken(opcode, ops[1])
               THEN m
               ELSE IF Len(ops) < 2
               THEN raise("IndexError")
               ELSE [m EXCEPT !.pc = ops[2]]
          [] opcode = 9 ->
               IF Len(ops) < 1
               THEN raise("IndexError")
               ELSE [m EXCEPT !.relative_base = NewRelativeBase(@, ops[1])]
          [] opcode = 99 ->
               [m EXCEPT !.exc = "HaltException",
                         !.exit_value = <<HaltValue(m.memory)>>]

\* one iteration of the loop of exec_program
LoopBody(m) ==
    IF ~PyInRange(m.memory, m.pc)
    THEN [m EXCEPT !.exc = "IndexError"]
    ELSE
      LET raw_instruction_value == PyGet(m.memory, m.pc)
          inst_opcode == InstOpcode(raw_instruction_value)
          inst_mode   == InstMode(raw_instruction_value)
          m1 == [m EXCEPT !.pc = @ + 1]
      IN
      IF inst_opcode \notin KnownOpcodes
      THEN [m1 EXCEPT !.exc = "Exception"]
      ELSE
        LET n  == ParamCount(inst_opcode)
            st == ReadLoop([memory |-> m1.memory,
                            register_values |-> PySlice(m1.memory, m1.pc, m1.pc + n),
                            operation_values |-> <<>>,
                            curr_modes |-> <<>>,
                            mode_copy |-> inst_mode,
                            exc |-> "none"], m1.relative_base, 1)
        IN
        IF st.exc /= "none"
        THEN [m1 EXCEPT !.memory = st.memory, !.exc = st.exc]
        ELSE ExecOf([m1 EXCEPT !.memory = st.memory, !.pc = @ + n],
                    inst_opcode, st.register_values, st.operation_values)

\* run_program around exec_program, for at most fuel iterations of the loop:
\* a WaitingForInputException is answered with the next value of supply, a
\* YieldAfterOutputException by taking the output; any other exception, or
\* a wait with nothing left to supply, ends the run
RECURSIVE RunProgram(_, _, _)
RunProgram(m, supply, fuel) ==
    IF m.exc = "none"
    THEN IF fuel = 0 THEN m ELSE RunProgram(LoopBody(m), supply, fuel - 1)
    ELSE IF m.exc = "WaitingForInputException" /\ supply /= <<>>
    THEN RunProgram([m EXCEPT !.input_stream = Append(@, Head(supply)),
                              !.exc = "none"], Tail(supply), fuel)
    ELSE IF m.exc = "YieldAfterOutputException"
    THEN RunProgram([m EXCEPT !.output_stream = Tail(@),
                              !.taken = Append(@, Head(m.output_stream)),
                              !.exc = "none"], supply, fuel)
    ELSE m

(***************************************************************************)
(* day11.py: RobotVector, SpaceShipGrid and run_program around the machine *)
(* of exec_program.  The grid is the set of the items of the defaultdict.  *)
(***************************************************************************)
RobotVectorUP == 0
RobotVectorRIGHT == 1
RobotVectorDOWN == 2
RobotVectorLEFT == 3

BLACK == 0
WHITE == 1

\* RobotVector.turn_right
turn_right(dir) == (dir + 1) % 4

turn_left_turns_right(dir) == (dir + 1) % 4

\* RobotVector.turn_left
turn_left(dir) == (dir + 3) % 4

\* RobotVector.go_forward: the new <<x, y>>
go_forward(x, y, dir) ==
    CASE dir = RobotVectorUP    -> <<x, y + 1>>
      [] dir = RobotVectorRIGHT -> <<x + 1, y>>
      [] dir = RobotVectorDOWN  -> <<x, y - 1>>
      [] dir = RobotVectorLEFT  -> <<x - 1, y>>

\* grid.keys()
GridKeys(grid) == {item[1] : item \in grid}

SpaceShipGridGetBlack(grid, x, y) == BLACK

\* SpaceShipGrid.get: self.grid[(x, y)], BLACK for a key that is missing
SpaceShipGridGet(grid, x, y) ==
    IF <<x, y>> \in GridKeys(grid)
    THEN (CHOOSE item \in grid : item[1] = <<x, y>>)[2]
    ELSE BLACK

\* the grid after SpaceShipGrid.get: the defaultdict stores the default
\* under a key that was missing
AfterGet(grid, x, y) ==
    IF <<x, y>> \in GridKeys(grid) THEN grid ELSE grid \cup {<<<<x, y>>, BLACK>>}

\* SpaceShipGrid.set
SpaceShipGridSet(grid, x, y, value) ==
    {item \in grid : item[1] /= <<x, y>>} \cup {<<<<x, y>>, value>>}

\* programs that output a colour and no turn, a pair, a turn that is
\* neither 0 nor 1, and that read the panel without painting it
PaintPrograms ==
    {FlipAndTurn, <<104, 1, 104, 0, 104, 0, 99>>, <<104, 0, 104, 2, 99>>,
     <<3, 0, 104, 1, 104, 0, 3, 0, 99>>,
     <<104, 1, 104, 1, 104, 0, 104, 1, 104, 1, 104, 1, 99>>}

\* MachineState(day11_inputs, Queue(), Queue(), True),
\* SpaceShipGrid(day11_machine) and set(0, 0, SpaceShipGrid.WHITE)
InitRobot ==
    /\ memory \in Programs \cup PaintPrograms
    /\ pc = 0
    /\ relative_base = 0
    /\ input_stream = <<>>
    /\ output_stream = <<>>
    /\ yield_on_output = TRUE
    /\ inst = NoInst
    /\ exc = "none"
    /\ phase = "fetch"
    /\ before = [memory |-> memory, pc |-> 0, relative_base |-> 0,
                 input_stream |-> <<>>, output_stream |-> <<>>, prev |-> NoPrev]
    /\ nfetch = 0
    /\ exit_value = <<>>
    /\ hist = [program |-> memory, supplied |-> <<>>, taken |-> <<>>]
    /\ pr_grid = SpaceShipGridSet({}, 0, 0, WHITE)
    /\ pr_x = 0
    /\ pr_y = 0
    /\ pr_dir = RobotVectorUP
    /\ pr_colour = <<>>
    /\ pr_painted = {}
    /\ pr_total = <<>>
    /\ D2Idle /\ ChIdle /\ D5Idle /\ IoIdle /\ ArIdle /\ W3Idle /\ MnIdle /\ O6Idle

\* what run_program leaves alone
not_robot == <<d2, ch, d5, io, ar, w3, mn, o6>>

\* exec_program_with_input_supplied_on_demand: except
\* WaitingForInputException, then exec_program again
RobotSupply ==
    /\ exc = "WaitingForInputException"
    /\ LET program_input == SpaceShipGridGet(pr_grid, pr_x, pr_y)
       IN  /\ input_stream' = Append(input_stream, program_input)
           /\ hist' = [hist EXCEPT !.supplied = Append(@, program_input)]
    /\ pr_grid' = AfterGet(pr_grid, pr_x, pr_y)
    /\ exc' = "none"
    /\ inst' = NoInst
    /\ UNCHANGED <<memory, pc, relative_base, output_stream, yield_on_output,
                   exit_value, phase, before, nfetch>>
    /\ UNCHANGED <<pr_x, pr_y, pr_dir, pr_colour, pr_painted, pr_total>>
    /\ UNCHANGED not_robot

\* exec_program_with_input_supplied_on_demand: except
\* YieldAfterOutputException, return output_stream.get().  The first value
\* returned is raw_color; on the second, raw_turn, the body of the loop of
\* run_program sets the panel, turns and goes forward
RobotTake ==
    /\ exc = "YieldAfterOutputException"
    /\ output_stream /= <<>>
    /\ output_stream' = Tail(output_stream)
    /\ hist' = [hist EXCEPT !.taken = Append(@, Head(output_stream))]
    /\ exc' = "none"
    /\ inst' = NoInst
    /\ IF pr_colour = <<>>
       THEN /\ pr_colour' = <<Head(output_stream)>>
            /\ UNCHANGED <<pr_grid, pr_x, pr_y, pr_dir, pr_painted>>
       ELSE LET raw_color == pr_colour[1]
                raw_turn  == Head(output_stream)
                dir == IF raw_turn = 0 THEN turn_left(pr_dir)
                       ELSE IF raw_turn = 1 THEN turn_right(pr_dir)
                       ELSE pr_dir
            IN  /\ pr_grid' = SpaceShipGridSet(pr_grid, pr_x, pr_y, raw_color)
                /\ pr_painted' = pr_painted \cup {<<pr_x, pr_y>>}
                /\ pr_dir' = dir
                /\ pr_x' = go_forward(pr_x, pr_y, dir)[1]
                /\ pr_y' = go_forward(pr_x, pr_y, dir)[2]
                /\ pr_colour' = <<>>
    /\ UNCHANGED <<memory, pc, relative_base, input_stream, yield_on_output,
                   exit_value, phase, before, nfetch>>
    /\ UNCHANGED pr_total
    /\ UNCHANGED not_robot

\* run_program: except HaltException, print the number of keys of the grid
RobotHalt ==
    /\ exc = "HaltException"
    /\ pr_total = <<>>
    /\ pr_total' = <<Cardinality(GridKeys(pr_grid))>>
    /\ UNCHANGED <<pr_grid, pr_x, pr_y, pr_dir, pr_colour, pr_painted>>
    /\ UNCHANGED vm
    /\ UNCHANGED not_robot

NextRobot == Fetch \/ ReadRegisters \/ Exec \/ RobotSupply \/ RobotTake \/ RobotHalt

SpecRobot == InitRobot /\ [][NextRobot]_vars

(***************************************************************************)
(* day11/intcode: IntCodeComputer.  One action is one iteration of the     *)
(* loop of exec_program.  The machine is held in the variables of the      *)
(* day11.py machine: input_stream is what the input device still yields,   *)
(* output_stream what the output device was sent.                          *)
(***************************************************************************)
\* the two kinds of object that reach load_registers as arguments
PyInt(n) == [type |-> "int", value |-> n]
PyMachineState(mem, at, rb) ==
    [type |-> "MachineState", memory |-> mem, pc |-> at, relative_base |-> rb]

\* Instruction.load_registers(self, state, mode) for an instruction with n
\* parameters: state.memory is read first, which an int does not have
LoadRegisters(state, mode, n) ==
    IF state.type /= "MachineState"
    THEN [exc |-> "AttributeError"]
    ELSE IF mode.type /= "int"
    THEN [exc |-> "TypeError"]
    ELSE ReadLoop([memory |-> state.memory,
                   register_values |-> PySlice(state.memory, state.pc, state.pc + n),
                   operation_values |-> <<>>,
                   curr_modes |-> <<>>,
                   mode_copy |-> mode.value,
                   exc |-> "none"], state.relative_base, 1)

\* IntCodeComputer(MachineState(memory, input_device, output_device))
InitComputer ==
    /\ VmInitDay9b
    /\ ~yield_on_output
    /\ AllIdleExcept("vm")

\* one iteration of IntCodeComputer.exec_program: read_next_instruction,
\* inst.load_registers(mode, self.machine_state), inst.exec
ComputerLoop ==
    /\ phase = "fetch"
    /\ exc = "none"
    /\ nfetch < FetchBound(hist.program)
    /\ nfetch' = nfetch + 1
    /\ IF ~PyInRange(memory, pc)
       THEN /\ exc' = "IndexError"
            /\ UNCHANGED <<memory, pc, relative_base, input_stream,
                           output_stream, exit_value>>
       ELSE
         LET raw_memory == PyGet(memory, pc)
             opcode == InstOpcode(raw_memory)
             mode   == InstMode(raw_memory)
         IN
         IF opcode \notin KnownOpcodes
         THEN /\ exc' = "KeyError"
              /\ pc' = pc + 1
              /\ UNCHANGED <<memory, relative_base, input_stream,
                             output_stream, exit_value>>
         ELSE
           LET n  == ParamCount(opcode)
               st == LoadRegisters(PyInt(mode),
                                   PyMachineState(memory, pc + 1, relative_base), n)
           IN
           IF st.exc /= "none"
           THEN /\ exc' = st.exc
                /\ pc' = pc + 1
                /\ memory' = IF st.exc = "AttributeError" \/ st.exc = "TypeError"
                             THEN memory ELSE st.memory
                /\ UNCHANGED <<relative_base, input_stream, output_stream,
                               exit_value>>
           ELSE
             LET m == ExecOf([Machine(st.memory, input_stream, FALSE) EXCEPT
                                 !.pc = pc + 1 + n,
                                 !.relative_base = relative_base,
                                 !.output_stream = output_stream],
                             opcode, st.register_values, st.operation_values)
             IN  /\ memory' = m.memory
                 /\ pc' = m.pc
                 /\ relative_base' = m.relative_base
                 /\ input_stream' = m.input_stream
                 /\ output_stream' = m.output_stream
                 /\ exit_value' = m.exit_value
                 /\ exc' = IF opcode = 3 /\ input_stream = <<>>
                           THEN "StopIteration" ELSE m.exc
    /\ UNCHANGED <<yield_on_output, inst, phase, before, hist>>
    /\ UNCHANGED not_vm

NextComputer == ComputerLoop

SpecComputer == InitComputer /\ [][NextComputer]_vars

(***************************************************************************)
(* day7a.py and day7b.py: the amplifier machines and the loop of           *)
(* search_for_largest_output.  One action is one call of exec_program.     *)
(***************************************************************************)
\* a_state .. e_state
Amps == 1..5

\* permutations(phases)
permutations(phases) ==
    {p \in [1..Cardinality(phases) -> phases] :
        \A i, j \in 1..Cardinality(phases) : p[i] = p[j] => i = j}

\* permutations([0, 1, 2, 3, 4]) and permutations([5, 6, 7, 8, 9])
PhasesOf(variant) == IF variant = "day7a" THEN 0..4 ELSE 5..9

\* an amplifier program that reads its phase and then, twice, reads a
\* signal and emits 10 minus the signal
TenMinusSignal ==
    <<3, 22, 3, 23, 1002, 23, -1, 23, 1001, 23, 10, 23, 4, 23,
      1001, 24, -1, 24, 1005, 24, 2, 99, 0, 0, 2>>

\* the programs of the comments that follow search_for_largest_output and,
\* for day7b.py, TenMinusSignal
AmpPrograms(variant) ==
    IF variant = "day7a"
    THEN {<<3, 15, 3, 16, 1002, 16, 10, 16, 1, 16, 15, 15, 4, 15, 99, 0, 0>>,
          <<3, 23, 3, 24, 1002, 24, 10, 24, 1002, 23, -1, 23,
            101, 5, 23, 23, 1, 24, 23, 23, 4, 23, 99, 0, 0>>,
          <<3, 31, 3, 32, 1002, 32, 10, 32, 1001, 31, -2, 31, 1007, 31, 0, 33,
            1002, 33, 7, 33, 1, 33, 31, 31, 1, 32, 31, 31, 4, 31, 99, 0, 0, 0>>}
    ELSE {<<3, 26, 1001, 26, -4, 26, 3, 27, 1002, 27, 2, 27, 1, 27, 26,
            27, 4, 27, 1001, 28, -1, 28, 1005, 28, 6, 99, 0, 0, 5>>,
          <<3, 52, 1001, 52, -5, 52, 3, 53, 1, 52, 56, 54, 1007, 54, 5, 55,
            1005, 55, 26, 1001, 54, -5, 54, 1105, 1, 12, 1, 53, 54, 53,
            1008, 54, 0, 55, 1001, 55, 1, 55, 2, 53, 55, 53, 4,
            53, 1001, 56, -1, 56, 1005, 56, 6, 99, 0, 0, 0, 0, 10>>,
          TenMinusSignal}

KnownOpcodesDay7 == {1, 2, 3, 4, 5, 6, 7, 8, 99}

ImmediateValueUnsigned(r) == IF r < 0 THEN -r ELSE r

\* the operand of an immediate-mode parameter r
ImmediateValue(r) == r

\* the loop of Instruction.read_registers: a position-mode parameter is
\* memory[r], an immediate one is r, any other mode digit appends nothing
RECURSIVE ReadLoopDay7(_, _)
ReadLoopDay7(st, i) ==
    IF i > Len(st.register_values)
    THEN st
    ELSE
      LET r         == st.register_values[i]
          curr_mode == CurrMode(st.mode_copy)
          st1       == [st EXCEPT !.mode_copy = NextModeCopy(@)]
      IN
      IF curr_mode = POSITION_MODE
      THEN IF PyInRange(st.memory, r)
           THEN ReadLoopDay7([st1 EXCEPT !.operation_values =
                                           Append(@, PyGet(st.memory, r))], i + 1)
           ELSE [st1 EXCEPT !.exc = "IndexError"]
      ELSE IF curr_mode = IMMEDIATE_MODE
      THEN ReadLoopDay7([st1 EXCEPT !.operation_values =
                                      Append(@, ImmediateValue(r))], i + 1)
      ELSE ReadLoopDay7(st1, i + 1)

\* inst.exec(state) of day7a.py, day7b.py or day5.py; a machine is the
\* record of its memory, its pc, the contents of its two queues (in day5.py
\* the lines of the standard input and the values printed) and the
\* exception that ended its last call of exec_program
ExecDay7(variant, m, opcode, regs, ops) ==
    LET raise(e) == [m EXCEPT !.exc = e]
    IN  CASE opcode \in {1, 2, 7, 8} ->
               IF Len(ops) < 2 \/ Len(regs) < 3 \/ ~PyInRange(m.memory, regs[3])
               THEN raise("IndexError")
               ELSE [m EXCEPT !.memory =
                        PySet(@, regs[3], ArithValue(opcode, ops[1], ops[2]))]
          [] opcode = 3 ->
               IF m.input_stream = <<>>
               THEN raise(CASE variant = "day7a" -> "WaitingForInputException"
                            [] variant = "day7b" -> "blocked"
                            [] variant = "day5"  -> "EOFError")
               ELSE IF Len(regs) < 1 \/ ~PyInRange(m.memory, regs[1])
               THEN [m EXCEPT !.input_stream = Tail(@), !.exc = "IndexError"]
               ELSE [m EXCEPT !.memory = PySet(@, regs[1], Head(m.input_stream)),
                              !.input_stream = Tail(@)]
          [] opcode = 4 ->
               IF Len(ops) < 1
               THEN raise("IndexError")
               ELSE [m EXCEPT !.output_stream = Append(@, ops[1]),
                              !.exc = IF variant = "day5" THEN "none"
                                      ELSE "YieldAfterOutputException"]
          [] opcode \in {5, 6} ->
               IF Len(ops) < 1
               THEN raise("IndexError")
               ELSE IF ~JumpTaken(opcode, ops[1])
               THEN m
               ELSE IF Len(ops) < 2
               THEN raise("IndexError")
               ELSE [m EXCEPT !.pc = ops[2]]
          [] opcode = 99 ->
               [m EXCEPT !.exc = "HaltException",
                         !.exit_value = <<PyGet(m.memory, 0)>>]

\* one iteration of the loop of exec_program
LoopBodyDay7(variant, m) ==
    IF ~PyInRange(m.memory, m.pc)
    THEN [m EXCEPT !.exc = "IndexError"]
    ELSE
      LET raw_instruction_value == PyGet(m.memory, m.pc)
          inst_opcode == InstOpcode(raw_instruction_value)
          inst_mode   == InstMode(raw_instruction_value)
          m1 == [m EXCEPT !.pc = @ + 1]
      IN
      IF inst_opcode \notin KnownOpcodesDay7
      THEN [m1 EXCEPT !.exc = "Exception"]
      ELSE
        LET n  == ParamCount(inst_opcode)
            st == ReadLoopDay7([memory |-> m1.memory,
                                register_values |-> PySlice(m1.memory, m1.pc, m1.pc + n),
                                operation_values |-> <<>>,
                                mode_copy |-> inst_mode,
                                exc |-> "none"], 1)
        IN
        IF st.exc /= "none"
        THEN [m1 EXCEPT !.exc = st.exc]
        ELSE ExecDay7(variant, [m1 EXCEPT !.pc = @ + n],
                      inst_opcode, st.register_values, st.operation_values)

\* the loop of exec_program, until an exception leaves it; a call that is
\* still in the loop after fuel iterations is reported as "running"
RECURSIVE ExecProgramDay7(_, _, _)
ExecProgramDay7(variant, m, fuel) ==
    IF m.exc /= "none"
    THEN m
    ELSE IF fuel = 0
    THEN [m EXCEPT !.exc = "running"]
    ELSE ExecProgramDay7(variant, LoopBodyDay7(variant, m), fuel - 1)

\* bound: iterations of the loop explored per call of exec_program
MaxLoop == 30

AmpMemRefShared(k) == 0

\* the list object that is amplifier k's memory: copy.copy(initial_input)
\* makes one list per amplifier (object 0 is initial_input itself)
AmpMemRef(k) == k

\* the Queue objects that are amplifier k's input_stream and output_stream:
\* queue k - 1 feeds amplifier k; in day7b.py e_state writes to a_state's
\* input queue
AmpIn(k) == k - 1

AmpOutNoFeedback(variant, k) == k

AmpOut(variant, k) == IF variant = "day7b" /\ k = 5 THEN 0 ELSE k

\* the statements of the driver
Stmt(s, k) == [stmt |-> s, amp |-> k]

\* the five MachineState(...) and the put calls that precede the first
\* exec_program
ChConstruct(variant, perms) ==
    /\ ch_variant = variant
    /\ ch_perm \in perms
    /\ \E initial_input \in AmpPrograms(variant) :
          ch_lists = [r \in {0} \cup Amps |-> initial_input]
    /\ ch_pc = [k \in Amps |-> 0]
    /\ ch_result = [k \in Amps |-> "none"]
    /\ ch_queues = [q \in 0..5 |->
                      IF q = 0 THEN <<ch_perm[1], 0>>
                      ELSE IF q < 5 THEN <<ch_perm[q + 1]>>
                      ELSE <<>>]
    /\ max_value = -1

\* the machine record of amplifier k
AmpMachine(k) ==
    [memory |-> ch_lists[AmpMemRef(k)], pc |-> ch_pc[k],
     input_stream |-> ch_queues[AmpIn(k)],
     output_stream |-> ch_queues[AmpOut(ch_variant, k)],
     exc |-> "none", exit_value |-> <<>>]

\* exec_program(machine_state) on amplifier k
ExecProgram(k) ==
    LET m == ExecProgramDay7(ch_variant, AmpMachine(k), MaxLoop)
    IN  /\ ch_lists' = [ch_lists EXCEPT ![AmpMemRef(k)] = m.memory]
        /\ ch_pc' = [ch_pc EXCEPT ![k] = m.pc]
        /\ ch_queues' = [ch_queues EXCEPT ![AmpIn(k)] = m.input_stream,
                                          ![AmpOut(ch_variant, k)] = m.output_stream]
        /\ ch_result' = [ch_result EXCEPT ![k] = m.exc]
        /\ UNCHANGED <<ch_variant, ch_perm>>
        /\ UNCHANGED not_ch

\* what follows exec_program(k) in search_for_largest_output when the call
\* ended with e: day7a.py's exec_program returns on the three signals;
\* day7b.py's lets HaltException through to the except clause of the loop
AfterCall(variant, k, e) ==
    IF e = "blocked" \/ e = "running"
    THEN Stmt(e, k)
    ELSE IF e = "HaltException" /\ variant = "day7b"
    THEN Stmt("done", 0)
    ELSE IF e \in {"HaltException", "WaitingForInputException",
                   "YieldAfterOutputException"}
    THEN IF k < 5 THEN Stmt("exec_program", k + 1) ELSE Stmt("max", 0)
    ELSE Stmt("raised", k)

\* exec_program(a_state) .. exec_program(e_state), in this order
DriverCall ==
    /\ ch_next.stmt = "exec_program"
    /\ ExecProgram(ch_next.amp)
    /\ ch_next' = AfterCall(ch_variant, ch_next.amp, ch_result'[ch_next.amp])
    /\ UNCHANGED max_value

\* max_value = max(e_state.output_stream.get(), max_value) in day7a.py,
\* max_value = max(e_state.output_stream.queue[0], max_value) in day7b.py
DriverMax ==
    /\ ch_next.stmt = "max"
    /\ LET q == AmpOut(ch_variant, 5)
       IN  IF ch_queues[q] = <<>>
           THEN /\ ch_next' = Stmt(IF ch_variant = "day7a" THEN "blocked" ELSE "raised", 0)
                /\ UNCHANGED <<ch_queues, max_value>>
           ELSE /\ max_value' = Max(Head(ch_queues[q]), max_value)
                /\ ch_queues' = IF ch_variant = "day7a"
                                THEN [ch_queues EXCEPT ![q] = Tail(@)]
                                ELSE ch_queues
                /\ ch_next' = IF ch_variant = "day7a"
                              THEN Stmt("done", 0) ELSE Stmt("exec_program", 1)
    /\ UNCHANGED <<ch_variant, ch_perm, ch_lists, ch_pc, ch_result>>
    /\ UNCHANGED not_ch

InitChain ==
    /\ \E variant \in {"day7a", "day7b"} :
          ChConstruct(variant, permutations(PhasesOf(variant)))
    /\ ch_next = Stmt("exec_program", 1)
    /\ AllIdleExcept("ch")

NextChain == DriverCall \/ DriverMax

\* one iteration of the for loop of search_for_largest_output
SpecChain == InitChain /\ [][NextChain]_vars

\* the driver is at a statement of its loop: DriverCall or DriverMax is
\* enabled in exactly these states
InLoop == ch_next.stmt \in {"exec_program", "max"}

\* the driver runs until its loop ends: nothing else is scheduled.  This is
\* WF_vars(NextChain) with InLoop written for ENABLED <<NextChain>>_vars
FairSpecChain == SpecChain /\ ([]<>~InLoop \/ []<><<NextChain>>_vars)

\* a driving loop that resumes the amplifiers of day7a.py in any order: a
\* machine is suspended when it has not run yet, when it yielded after an
\* output, or when it waits for input and its queue holds some
Suspended(k) ==
    \/ ch_result[k] \in {"none", "YieldAfterOutputException"}
    \/ ch_result[k] = "WaitingForInputException" /\ ch_queues[AmpIn(k)] /= <<>>

ResumeAny ==
    /\ ch_next.stmt = "any"
    /\ \E k \in Amps : Suspended(k) /\ ExecProgram(k)
    /\ UNCHANGED <<ch_next, max_value>>

\* the phase settings that give the three expected values of day7a.py
SamplePerms == {<<4, 3, 2, 1, 0>>, <<0, 1, 2, 3, 4>>, <<1, 0, 4, 3, 2>>}

InitAnyOrder ==
    /\ ChConstruct("day7a", SamplePerms)
    /\ ch_next = Stmt("any", 0)
    /\ AllIdleExcept("ch")

SpecAnyOrder == InitAnyOrder /\ [][ResumeAny]_vars

\* what amplifier k .. e put in their output queues when each runs once, in
\* the order of search_for_largest_output; signal is the output queue of
\* amplifier k - 1
RECURSIVE InOrder(_, _, _, _)
InOrder(initial_input, perm, k, signal) ==
    LET m == ExecProgramDay7("day7a",
                             [memory |-> initial_input, pc |-> 0,
                              input_stream |-> <<perm[k]>> \o signal,
                              output_stream |-> <<>>,
                              exc |-> "none", exit_value |-> <<>>], MaxLoop)
    IN  IF k = 5 THEN m.output_stream
        ELSE InOrder(initial_input, perm, k + 1, m.output_stream)

(***************************************************************************)
(* day5.py: exec_program.  One action is one iteration of its loop.        *)
(***************************************************************************)
\* programs whose first word has a mode digit that is neither 0 nor 1
UndefinedModePrograms ==
    {<<20001, 0, 0, 4, 99>>, <<301, 0, 0, 4, 99>>, <<203, 4, 99, 0, 0>>,
     <<204, 0, 99>>, <<205, 0, 1, 99>>, <<206, 0, 1, 99>>,
     <<20108, 0, 0, 4, 99>>}

\* lists exec_program is called with: an instruction with two parameters
\* and the destination 4, followed by the cell it writes, three short
\* programs with Input, Output and a position-mode operand, and
\* UndefinedModePrograms
D5Programs ==
    {<<w, a, b, 4, 0>> : w \in {1101, 1102, 1001, 101, 1107, 1108},
                         a \in {100, 33, 3, 0, -1},
                         b \in {-1, 0, 1, 3, 4}}
      \cup {<<3, 0, 4, 0, 99>>, <<1002, 4, 3, 4, 33>>, <<104, -7, 99>>}
      \cup UndefinedModePrograms

\* state = MachineState(memory)
D5Init ==
    /\ d5_program \in D5Programs
    /\ d5_memory = d5_program
    /\ d5_pc = 0
    /\ d5_stdin \in {<<>>, <<7>>}
    /\ d5_stdout = <<>>
    /\ d5_exc = "none"
    /\ d5_exit = <<>>
    /\ d5_iter = 0

\* inst = read_from_instruction_table(state); inst.read_registers(state);
\* inst.exec(state)
D5LoopBody ==
    /\ d5_exc = "none"
    /\ LET m == LoopBodyDay7("day5",
                             [memory |-> d5_memory, pc |-> d5_pc,
                              input_stream |-> d5_stdin,
                              output_stream |-> d5_stdout,
                              exc |-> "none", exit_value |-> <<>>])
       IN  /\ d5_memory' = m.memory
           /\ d5_pc' = m.pc
           /\ d5_stdin' = m.input_stream
           /\ d5_stdout' = m.output_stream
           /\ d5_exc' = m.exc
           /\ d5_exit' = m.exit_value
    /\ d5_iter' = d5_iter + 1
    /\ UNCHANGED d5_program
    /\ UNCHANGED not_d5

InitDay5 == D5Init /\ AllIdleExcept("d5")

NextDay5 == D5LoopBody

\* except HaltException as e: return e.exit_value; any other exception
\* leaves exec_program
SpecDay5 == InitDay5 /\ [][NextDay5]_vars

(***************************************************************************)
(* The machine of the intcode package bound to a StdIoDevice: the device   *)
(* calls of ReadInput.exec and WriteOutput.exec.  A generator is "created" *)
(* before its first next(), "yield" while suspended at its yield and       *)
(* "finished" once its body has returned or raised.                        *)
(***************************************************************************)
\* bound: lines on the standard input
MaxLines == 3

\* the values written and the numbers typed
IoValues == {-1, 0, 1}

RECURSIVE SeqsUpTo(_, _)
SeqsUpTo(S, n) ==
    IF n = 0 THEN {<<>>}
    ELSE LET shorter == SeqsUpTo(S, n - 1)
         IN  shorter \cup {Append(q, v) : q \in shorter, v \in S}

\* MachineState(memory, StdIoDevice(), StdIoDevice()): io_get() and io_put()
\* create the generators and next(self.output_device) runs io_put to its
\* yield
IoInit ==
    /\ io_get = "created"
    /\ io_put = "yield"
    /\ io_stdin \in SeqsUpTo(IoValues, MaxLines)
    /\ io_stdout = <<>>
    /\ io_read = <<>>
    /\ io_exc = "none"

\* WriteOutput.exec: state.output_device.send(v).  io_put prints the value
\* it was sent and returns, which ends the generator: send raises
\* StopIteration, as does every send to the finished generator
IoSend(v) ==
    /\ io_exc = "none"
    /\ IF io_put = "yield"
       THEN /\ io_stdout' = Append(io_stdout, v)
            /\ io_put' = "finished"
       ELSE UNCHANGED <<io_stdout, io_put>>
    /\ io_exc' = "StopIteration"
    /\ UNCHANGED <<io_get, io_stdin, io_read>>
    /\ UNCHANGED not_io

\* ReadInput.exec: next(state.input_device).  The first next runs io_get to
\* its yield of int(input()); the second resumes it after the yield, where
\* the body ends
IoNext ==
    /\ io_exc = "none"
    /\ IF io_get = "created"
       THEN IF io_stdin = <<>>
            THEN /\ io_exc' = "EOFError"
                 /\ io_get' = "finished"
                 /\ UNCHANGED <<io_stdin, io_read>>
            ELSE /\ io_read' = Append(io_read, Head(io_stdin))
                 /\ io_stdin' = Tail(io_stdin)
                 /\ io_get' = "yield"
                 /\ UNCHANGED io_exc
       ELSE /\ io_exc' = "StopIteration"
            /\ io_get' = "finished"
            /\ UNCHANGED <<io_stdin, io_read>>
    /\ UNCHANGED <<io_put, io_stdout>>
    /\ UNCHANGED not_io

InitStdIo == IoInit /\ AllIdleExcept("io")

NextStdIo == (\E v \in IoValues : IoSend(v)) \/ IoNext

\* the Output and Input instructions of a run, in any order
SpecStdIo == InitStdIo /\ [][NextStdIo]_vars

(***************************************************************************)
(* day13.py: the machine bound to JoyStick and ArcadeCabinet.  One action  *)
(* is one device call of ReadInput.exec or WriteOutput.exec; the grid is a *)
(* function from the keys set so far to their tiles.                       *)
(***************************************************************************)
\* bound: device calls explored per run
MaxCalls == 7

\* class ScreenTile(IntEnum)
EMPTY == 0
WALL == 1
BLOCK == 2
H_PADDLE == 3
BALL == 4
ScreenTile == {EMPTY, WALL, BLOCK, H_PADDLE, BALL}

\* class JoyStick
LEFT == -1
NEUT == 0
RIGHT == 1

\* the values the machine writes
ArValues == {-1, 0, 3, 4}

\* screen = OutputScreen(); joystick = JoyStick(); cabinet =
\* ArcadeCabinet(screen, joystick); MachineState(day13_inputs, joystick,
\* cabinet): both io_put generators stand at their first yield
ArInit ==
    /\ ar_grid = <<>>
    /\ ar_ball_pos = <<>>
    /\ ar_paddle_pos = <<>>
    /\ ar_score = 0
    /\ ar_raw = <<>>
    /\ ar_pos = NEUT
    /\ ar_read = <<>>
    /\ ar_count = 0
    /\ ar_sent = <<>>
    /\ ar_exc = "none"

IsScoreGroupAnyRow(raw_x, raw_y) == raw_x = -1

\* if raw_x == -1 and raw_y == 0
IsScoreGroup(raw_x, raw_y) == raw_x = -1 /\ raw_y = 0

\* self.grid[(x, y)] = value
GridSet(grid, x, y, value) ==
    [k \in DOMAIN grid \cup {<<x, y>>} |->
        IF k = <<x, y>> THEN value ELSE grid[k]]

ChasePosAway(ball_pos, paddle_pos, pos) ==
    IF ball_pos /= <<>> /\ paddle_pos /= <<>>
    THEN IF paddle_pos[1] > ball_pos[1] THEN RIGHT
         ELSE IF paddle_pos[1] < ball_pos[1] THEN LEFT
         ELSE NEUT
    ELSE pos

\* the position chase_ball sets the joystick to
ChasePos(ball_pos, paddle_pos, pos) ==
    IF ball_pos /= <<>> /\ paddle_pos /= <<>>
    THEN IF paddle_pos[1] > ball_pos[1] THEN LEFT
         ELSE IF paddle_pos[1] < ball_pos[1] THEN RIGHT
         ELSE NEUT
    ELSE pos

\* WriteOutput.exec: state.output_device.send(v).  ArcadeCabinet.io_put
\* passes v to OutputScreen.io_put, which keeps it until it has three
\* values, then calls chase_ball and yields again
ArSend(v) ==
    /\ ar_exc = "none"
    /\ ar_count < MaxCalls
    /\ ar_count' = ar_count + 1
    /\ ar_sent' = Append(ar_sent, v)
    /\ IF Len(ar_raw) < 2
       THEN /\ ar_raw' = Append(ar_raw, v)
            /\ UNCHANGED <<ar_grid, ar_ball_pos, ar_paddle_pos, ar_score, ar_exc>>
       ELSE LET raw_x == ar_raw[1]
                raw_y == ar_raw[2]
            IN  IF IsScoreGroup(raw_x, raw_y)
                THEN /\ ar_score' = v
                     /\ ar_raw' = <<>>
                     /\ UNCHANGED <<ar_grid, ar_ball_pos, ar_paddle_pos, ar_exc>>
                ELSE IF v \notin ScreenTile
                THEN /\ ar_exc' = "ValueError"
                     /\ UNCHANGED <<ar_grid, ar_ball_pos, ar_paddle_pos,
                                    ar_score, ar_raw>>
                ELSE /\ ar_ball_pos' = IF v = BALL THEN <<raw_x, raw_y>>
                                       ELSE ar_ball_pos
                     /\ ar_paddle_pos' = IF v = H_PADDLE THEN <<raw_x, raw_y>>
                                         ELSE ar_paddle_pos
                     /\ ar_grid' = GridSet(ar_grid, raw_x, raw_y, v)
                     /\ ar_raw' = <<>>
                     /\ UNCHANGED <<ar_score, ar_exc>>
    /\ ar_pos' = IF ar_exc' = "none"
                 THEN ChasePos(ar_ball_pos', ar_paddle_pos', ar_pos)
                 ELSE ar_pos
    /\ UNCHANGED ar_read
    /\ UNCHANGED not_ar

\* ReadInput.exec: next(state.input_device), which yields joystick.pos
ArNext ==
    /\ ar_exc = "none"
    /\ ar_count < MaxCalls
    /\ ar_count' = ar_count + 1
    /\ ar_read' = Append(ar_read, ar_pos)
    /\ UNCHANGED <<ar_grid, ar_ball_pos, ar_paddle_pos, ar_score, ar_raw,
                   ar_pos, ar_sent, ar_exc>>
    /\ UNCHANGED not_ar

InitArcade == ArInit /\ AllIdleExcept("ar")

NextArcade == (\E v \in ArValues : ArSend(v)) \/ ArNext

\* the Output and Input instructions of a run of day13_computer, in any order
SpecArcade == InitArcade /\ [][NextArcade]_vars

(***************************************************************************)
(* day3a.py: find_intersections and                                        *)
(* find_intersection_dist_closest_to_origin.  A Point is <<x, y>>, a Line  *)
(* the record of its two Points, a direction the record of its letter and  *)
(* its distance.                                                           *)
(***************************************************************************)
\* bound: distances of the generated directions range over 1 .. MaxDist
MaxDist == 2

\* Point.__gt__, Point.__eq__ and the __lt__ total_ordering derives
PointGt(a, b) == a[1] > b[1] \/ (a[1] = b[1] /\ a[2] > b[2])
PointLt(a, b) == ~PointGt(a, b) /\ a /= b

\* Line.__init__
Line(p1, p2) == IF PointGt(p1, p2) THEN [p1 |-> p2, p2 |-> p1]
                ELSE [p1 |-> p1, p2 |-> p2]

\* Line.__gt__ and the __lt__ total_ordering derives
LineGt(a, b) == PointGt(a.p1, b.p1) \/ (a.p1 = b.p1 /\ PointGt(a.p2, b.p2))
LineLt(a, b) == ~LineGt(a, b) /\ a /= b

\* list.sort() of a list of Line
RECURSIVE InsertLine(_, _)
InsertLine(sorted, l) ==
    IF sorted = <<>> THEN <<l>>
    ELSE IF LineLt(l, Head(sorted)) THEN <<l>> \o sorted
    ELSE <<Head(sorted)>> \o InsertLine(Tail(sorted), l)

RECURSIVE SortLines(_)
SortLines(lines) ==
    IF lines = <<>> THEN <<>>
    ELSE InsertLine(SortLines(SubSeq(lines, 1, Len(lines) - 1)), lines[Len(lines)])

\* new_point of the loop of construct_lines_from_path_directions
NewPoint(current_point, direction) ==
    CASE direction.cardinal_dir = "R" ->
            <<current_point[1] + direction.dist, current_point[2]>>
      [] direction.cardinal_dir = "L" ->
            <<current_point[1] - direction.dist, current_point[2]>>
      [] direction.cardinal_dir = "U" ->
            <<current_point[1], current_point[2] + direction.dist>>
      [] direction.cardinal_dir = "D" ->
            <<current_point[1], current_point[2] - direction.dist>>

\* the loop of construct_lines_from_path_directions from direction i on
RECURSIVE ConstructLoop(_, _, _, _)
ConstructLoop(directions, i, current_point, acc) ==
    IF i > Len(directions) THEN acc
    ELSE LET direction == directions[i]
             new_point == NewPoint(current_point, direction)
             line      == Line(current_point, new_point)
         IN  ConstructLoop(directions, i + 1, new_point,
                IF direction.cardinal_dir \in {"R", "L"}
                THEN [acc EXCEPT !.horiz_lines = Append(@, line)]
                ELSE [acc EXCEPT !.vert_lines = Append(@, line)])

\* construct_lines_from_path_directions
ConstructLines(directions) ==
    LET acc == ConstructLoop(directions, 1, <<0, 0>>,
                             [horiz_lines |-> <<>>, vert_lines |-> <<>>])
    IN  [horiz_lines |-> SortLines(acc.horiz_lines),
         vert_lines  |-> SortLines(acc.vert_lines)]

\* the while loop of sweep_search_intersections: the lines at the head of
\* horiz_lines that start before line are moved to active_horiz
RECURSIVE Activate(_, _, _)
Activate(horiz_lines, active_horiz, line) ==
    IF horiz_lines /= <<>> /\ PointLt(Head(horiz_lines).p1, line.p1)
    THEN Activate(Tail(horiz_lines), Append(active_horiz, Head(horiz_lines)), line)
    ELSE [horiz_lines |-> horiz_lines, active_horiz |-> active_horiz]

\* the for loop of sweep_search_intersections from vertical line i on
RECURSIVE SweepLoop(_, _, _, _, _)
SweepLoop(horiz_lines, vert_lines, i, active_horiz, intersections) ==
    IF i > Len(vert_lines) THEN intersections
    ELSE LET line   == vert_lines[i]
             kept   == SelectSeq(active_horiz,
                                 LAMBDA active_line : PointGt(active_line.p2, line.p2))
             moved  == Activate(horiz_lines, kept, line)
             hits   == SelectSeq(moved.active_horiz,
                                 LAMBDA active_line :
                                    /\ line.p1[2] < active_line.p1[2]
                                    /\ active_line.p1[2] < line.p2[2])
             points == [j \in 1..Len(hits) |-> <<line.p1[1], hits[j].p1[2]>>]
         IN  SweepLoop(moved.horiz_lines, vert_lines, i + 1, moved.active_horiz,
                       intersections \o points)

sweep_search_intersections(horiz_lines, vert_lines) ==
    SweepLoop(horiz_lines, vert_lines, 1, <<>>, <<>>)

find_intersections(wire1_path, wire2_path) ==
    LET w1 == ConstructLines(wire1_path)
        w2 == ConstructLines(wire2_path)
    IN  sweep_search_intersections(w1.horiz_lines, w2.vert_lines)
          \o sweep_search_intersections(w2.horiz_lines, w1.vert_lines)

\* Point.value
Value(p) == (IF p[1] < 0 THEN -p[1] ELSE p[1]) + (IF p[2] < 0 THEN -p[2] ELSE p[2])

\* min([v.value() for v in all_intersections if v.value() is not 0]) as
\* <<d>>, <<>> when the list is empty and min raises ValueError
ClosestValue(all_intersections) ==
    LET values == {Value(all_intersections[j]) : j \in 1..Len(all_intersections)} \ {0}
    IN  IF values = {} THEN <<>>
        ELSE <<CHOOSE d \in values : \A e \in values : d <= e>>

\* "R8,U5".split(',') as a list of directions
Dir(c, n) == [cardinal_dir |-> c, dist |-> n]

\* the three pairs of wires of the asserts of day3a.py
SampleWires ==
    {<<<<Dir("R", 8), Dir("U", 5), Dir("L", 5), Dir("D", 3)>>,
       <<Dir("U", 7), Dir("R", 6), Dir("D", 4), Dir("L", 4)>>>>,
     <<<<Dir("R", 75), Dir("D", 30), Dir("R", 83), Dir("U", 83), Dir("L", 12),
         Dir("D", 49), Dir("R", 71), Dir("U", 7), Dir("L", 72)>>,
       <<Dir("U", 62), Dir("R", 66), Dir("U", 55), Dir("R", 34), Dir("D", 71),
         Dir("R", 55), Dir("D", 58), Dir("R", 83)>>>>,
     <<<<Dir("R", 98), Dir("U", 47), Dir("R", 26), Dir("D", 63), Dir("R", 33),
         Dir("U", 87), Dir("L", 62), Dir("D", 20), Dir("R", 33), Dir("U", 53),
         Dir("R", 51)>>,
       <<Dir("U", 98), Dir("R", 91), Dir("D", 20), Dir("R", 16), Dir("D", 67),
         Dir("R", 40), Dir("U", 7), Dir("R", 15), Dir("U", 6), Dir("R", 7)>>>>}

\* the generated wires: up to two directions each
WirePaths ==
    SeqsUpTo({Dir(c, n) : c \in {"R", "L", "U", "D"}, n \in 1..MaxDist}, 2)

\* find_intersection_dist_closest_to_origin(wire1_path, wire2_path) is called
W3Init ==
    /\ \E wires \in SampleWires \cup (WirePaths \X WirePaths) :
          w3_wire1 = wires[1] /\ w3_wire2 = wires[2]
    /\ w3_state = "called"
    /\ w3_intersections = <<>>
    /\ w3_closest = <<>>

\* it returns, or min raises
W3Return ==
    /\ w3_state = "called"
    /\ w3_state' = "returned"
    /\ w3_intersections' = find_intersections(w3_wire1, w3_wire2)
    /\ w3_closest' = ClosestValue(w3_intersections')
    /\ UNCHANGED <<w3_wire1, w3_wire2>>
    /\ UNCHANGED not_w3

InitDay3 == W3Init /\ AllIdleExcept("w3")

NextDay3 == W3Return

SpecDay3 == InitDay3 /\ [][NextDay3]_vars

(***************************************************************************)
(* day12b.py: GravitySimulation.  A Vector is <<x, y, z>>; dimension dim   *)
(* of the code is element dim + 1.                                         *)
(***************************************************************************)
\* bound: the coordinates of the generated moons range over 0 .. MaxCoord
MaxCoord == 2

\* the moons of test_sim3
test_sim3 == <<<<-1, 0, 2>>, <<2, -10, -7>>, <<4, -8, 8>>, <<3, 5, -1>>>>

\* the systems simulated: test_sim3, every pair of moons with coordinates
\* in 0 .. MaxCoord, and three moons in a row
MoonSystems ==
    {test_sim3, <<<<0, 0, 0>>, <<1, 2, 0>>, <<3, 2, 0>>>>}
      \cup {<<<<a[1], a[2], a[3]>>, <<b[1], b[2], b[3]>>>> :
               a \in (0..MaxCoord) \X (0..MaxCoord) \X (0..MaxCoord),
               b \in (0..MaxCoord) \X (0..MaxCoord) \X (0..MaxCoord)}

\* _apply_gravity(moons[i], moons[j]) on the list of accelerations
ApplyGravity(position, acceleration, i, j) ==
    [m \in 1..Len(acceleration) |->
       [dim \in 1..3 |->
          LET a == acceleration[m][dim]
          IN  IF position[i][dim] > position[j][dim]
              THEN a + (IF m = j THEN 1 ELSE 0) - (IF m = i THEN 1 ELSE 0)
              ELSE IF position[i][dim] < position[j][dim]
              THEN a + (IF m = i THEN 1 ELSE 0) - (IF m = j THEN 1 ELSE 0)
              ELSE a]]

\* the loops of _calculate_accelerations_for_tick from the pair (i, j) on
RECURSIVE AccelerationsFrom(_, _, _, _)
AccelerationsFrom(position, acceleration, i, j) ==
    IF i > Len(position) THEN acceleration
    ELSE IF j > Len(position)
    THEN AccelerationsFrom(position, acceleration, i + 1, i + 1)
    ELSE AccelerationsFrom(position, ApplyGravity(position, acceleration, i, j),
                           i, j + 1)

\* _clear_previous_accelerations and _calculate_accelerations_for_tick
Accelerations(position) ==
    AccelerationsFrom(position, [m \in 1..Len(position) |-> <<0, 0, 0>>], 1, 1)

\* the loops of calc_acc from the pair (i, j) on
RECURSIVE CalcAccFrom(_, _, _, _)
CalcAccFrom(pos, acc, i, j) ==
    IF i > Len(pos) THEN acc
    ELSE IF j > Len(pos) THEN CalcAccFrom(pos, acc, i + 1, i + 1)
    ELSE CalcAccFrom(pos,
            IF pos[i] > pos[j]
            THEN [[acc EXCEPT ![i] = @ - 1] EXCEPT ![j] = @ + 1]
            ELSE IF pos[i] < pos[j]
            THEN [[acc EXCEPT ![i] = @ + 1] EXCEPT ![j] = @ - 1]
            ELSE acc,
            i, j + 1)

\* calc_acc
calc_acc(pos) == CalcAccFrom(pos, [i \in 1..Len(pos) |-> 0], 1, 1)

\* one pass of the body of the while loop of find_dim_loop
DimStep(pos, vel) ==
    LET acc  == calc_acc(pos)
        vel1 == [i \in 1..Len(pos) |-> vel[i] + acc[i]]
    IN  [pos |-> [i \in 1..Len(pos) |-> pos[i] + vel1[i]], vel |-> vel1]

\* the while loop of find_dim_loop
RECURSIVE DimLoop(_, _, _, _)
DimLoop(pos, vel, init_pos, step) ==
    IF pos /= init_pos \/ vel /= [i \in 1..Len(pos) |-> 0]
    THEN LET next == DimStep(pos, vel)
         IN  DimLoop(next.pos, next.vel, init_pos, step + 1)
    ELSE step

\* find_dim_loop: the first pass stands before the loop, with vel = acc
find_dim_loop(pos) ==
    LET acc == calc_acc(pos)
    IN  DimLoop([i \in 1..Len(pos) |-> pos[i] + acc[i]], acc, pos, 1)

\* math.gcd
RECURSIVE Gcd(_, _)
Gcd(a, b) == IF b = 0 THEN a ELSE Gcd(b, a % b)

LcmIsProduct(a, b) == a * b

\* (a*b) // math.gcd(a, b)
Lcm(a, b) == (a * b) \div Gcd(a, b)

\* get_pos_vec
get_pos_vec(position, dim) == [m \in 1..Len(position) |-> position[m][dim + 1]]

find_global_loop(position) ==
    LET x_cycle == find_dim_loop(get_pos_vec(position, 0))
        y_cycle == find_dim_loop(get_pos_vec(position, 1))
        z_cycle == find_dim_loop(get_pos_vec(position, 2))
        xy_lcm  == Lcm(x_cycle, y_cycle)
    IN  Lcm(xy_lcm, z_cycle)

\* GravitySimulation([Moon(Vector(..)), ..])
MnInit ==
    /\ mn_start \in MoonSystems
    /\ mn_position = mn_start
    /\ mn_velocity = [m \in 1..Len(mn_start) |-> <<0, 0, 0>>]
    /\ mn_step = 0
    /\ mn_loop = <<>>

\* find_global_loop() on the simulation as built
FindGlobalLoop ==
    /\ mn_loop = <<>>
    /\ mn_loop' = <<find_global_loop(mn_position)>>
    /\ UNCHANGED <<mn_start, mn_position, mn_velocity, mn_step>>
    /\ UNCHANGED not_mn

\* tick(), for as many steps as find_global_loop returned
Tick ==
    /\ mn_loop /= <<>>
    /\ mn_step < mn_loop[1]
    /\ LET acceleration == Accelerations(mn_position)
           velocity == [m \in 1..Len(mn_position) |->
                          [dim \in 1..3 |-> mn_velocity[m][dim] + acceleration[m][dim]]]
       IN  /\ mn_velocity' = velocity
           /\ mn_position' = [m \in 1..Len(mn_position) |->
                                [dim \in 1..3 |-> mn_position[m][dim] + velocity[m][dim]]]
    /\ mn_step' = mn_step + 1
    /\ UNCHANGED <<mn_start, mn_loop>>
    /\ UNCHANGED not_mn

InitDay12 == MnInit /\ AllIdleExcept("mn")

NextDay12 == FindGlobalLoop \/ Tick

SpecDay12 == InitDay12 /\ [][NextDay12]_vars

(***************************************************************************)
(* Properties of day2a.py, checked under FairSpecDay2                                                  *)
(***************************************************************************)
D2NonNegative(prog) == \A i \in 1..Len(prog) : prog[i] >= 0

\* prog is n Add/Multiply instructions followed by 99, every address is
\* inside prog, and no instruction writes a cell of a later instruction
D2Straight(prog) ==
    \E n \in 0..(Len(prog) \div 4) :
       /\ 4 * n + 1 <= Len(prog)
       /\ prog[4 * n + 1] = 99
       /\ \A k \in 0..(n - 1) :
             /\ prog[4 * k + 1] \in {1, 2}
             /\ \A j \in 2..4 : prog[4 * k + j] \in 0..(Len(prog) - 1)
             /\ prog[4 * k + 4] \notin (4 * (k + 1))..(4 * n)

\* mem with the destination of each instruction from the k-th on replaced,
\* in program order, by the sum or product of the two cells it addresses
RECURSIVE D2Replaced(_, _)
D2Replaced(mem, k) ==
    IF mem[4 * k + 1] = 99
    THEN mem
    ELSE LET r1  == mem[4 * k + 2]
             r2  == mem[4 * k + 3]
             out == mem[4 * k + 4]
             v   == IF mem[4 * k + 1] = 1
                    THEN mem[r1 + 1] + mem[r2 + 1]
                    ELSE mem[r1 + 1] * mem[r2 + 1]
         IN  D2Replaced([mem EXCEPT ![out + 1] = v], k + 1)

D2Result ==
    /\ \A r \in D2Asserted :
          d2_program = r.program =>
             /\ d2_state \in {"start", "loop", "returned"}
             /\ d2_state = "returned" => d2_memory = r.result
    /\ (d2_state = "returned" /\ D2NonNegative(d2_program)) =>
          d2_memory = D2Replaced(d2_program, 0)

D2Halts ==
    (d2_program \in {r.program : r \in D2Asserted} \/ D2Straight(d2_program))
       ~> (d2_state = "returned")

\* C1: a program of position-mode Add and Multiply instructions ended by 99
\* halts, and the memory it returns is the initial memory with each
\* destination replaced in program order by the sum or product of the two
\* addressed cells, a later fetch decoding what an earlier instruction wrote;
\* [1,0,0,0,99] returns memory[0] = 2 and [2,3,0,3,99] returns memory[0] = 2
\* and memory[3] = 6.
C1_AddMultiplyProgram == []D2Result /\ D2Halts

\* the asserted self-modifying list has returned: its Add wrote the 2 that
\* was then decoded as Multiply
C1_Witness ==
    /\ d2_state = "returned"
    /\ d2_program = <<1, 1, 1, 4, 99, 5, 6, 0, 99>>
    /\ d2_memory[1] = 30
    /\ d2_memory[5] = 2

(***************************************************************************)
(* Properties of the day11.py machine                                      *)
(***************************************************************************)
FaultExceptions == {"Exception", "IndexError", "AssertionError"}

\* the word the current instruction was decoded from
FetchedWord == PyGet(before.memory, before.pc)

\* the raw parameter words that follow it
RawParams ==
    PySlice(before.memory, before.pc + 1,
            before.pc + 1 + ParamCount(InstOpcode(FetchedWord)))

\* the cell at a non-negative address of a zero-filled unbounded memory
Cell(mem, a) == IF a < Len(mem) THEN mem[a + 1] ELSE 0

\* exec of the fetched instruction has returned
Completed(opcodes) ==
    /\ phase = "fetch"
    /\ inst.opcode \in opcodes
    /\ exc \in {"none", "YieldAfterOutputException"}

\* every cell but the one at position d is as it was at the fetch, a cell
\* that did not exist then being 0
OnlyWritten(d) ==
    \A j \in 1..Len(memory) :
       j /= d => memory[j] = Cell(before.memory, j - 1)

\* C2: Add, Multiply, LessThan and Equals at address p write exactly one
\* cell, the destination, with a+b, a*b, (1 if a<b else 0), (1 if a==b else
\* 0); every other existing cell and relative_base are unchanged and
\* program_counter = p + 4.
C2_ArithmeticFrame ==
    Completed({1, 2, 7, 8}) =>
       LET a == inst.operation_values[1]
           b == inst.operation_values[2]
           d == PyPos(memory, inst.register_values[3])
       IN  /\ inst.opcode = 1 => memory[d] = a + b
           /\ inst.opcode = 2 => memory[d] = a * b
           /\ inst.opcode = 7 => memory[d] = IF a < b THEN 1 ELSE 0
           /\ inst.opcode = 8 => memory[d] = IF a = b THEN 1 ELSE 0
           /\ Len(memory) >= Len(before.memory)
           /\ OnlyWritten(d)
           /\ relative_base = before.relative_base
           /\ pc = before.pc + 4

\* a LessThan with equal operands has stored 0
C2_Witness ==
    /\ Completed({7})
    /\ inst.operation_values[1] = inst.operation_values[2]
    /\ memory /= before.memory
    /\ PyGet(memory, inst.register_values[3]) = 0

\* C3: JumpIfTrue at address p sets program_counter to b when a != 0 and to
\* p + 3 otherwise, JumpIfFalse sets it to b when a == 0 and to p + 3
\* otherwise; neither changes relative_base or the value of a memory cell.
C3_Jumps ==
    Completed({5, 6}) =>
       LET a == inst.operation_values[1]
           taken == IF inst.opcode = 5 THEN a /= 0 ELSE a = 0
       IN  /\ taken => /\ Len(inst.operation_values) = 2
                       /\ pc = inst.operation_values[2]
           /\ ~taken => pc = before.pc + 3
           /\ relative_base = before.relative_base
           /\ Len(memory) >= Len(before.memory)
           /\ OnlyWritten(0)

\* a JumpIfFalse with a zero operand has jumped away from p + 3
C3_Witness ==
    /\ Completed({6})
    /\ inst.operation_values[1] = 0
    /\ pc = inst.operation_values[2]
    /\ pc /= before.pc + 3

\* the mode digit of parameter i (counting from 1) of an instruction word
ModeDigit(word, i) == ((word \div 100) \div (10 ^ (i - 1))) % 10

\* the effective address of raw parameter i in position or relative mode,
\* with the relative_base in force at the fetch
EffectiveAddr(i) ==
    IF ModeDigit(FetchedWord, i) = POSITION_MODE
    THEN RawParams[i]
    ELSE before.relative_base + RawParams[i]

\* read_registers has run for the fetched word (and exec possibly too)
Decoded == inst.opcode /= -1 /\ phase \in {"read", "exec", "fetch"}

\* C4: the opcode is word % 100 and parameter i (counting from 0) is
\* resolved with mode (word / 100) / 10^i % 10, whatever the other digits.
C4_ModeDigits ==
    /\ Decoded =>
          /\ inst.opcode = FetchedWord % 100
          /\ \A i \in 1..Len(inst.curr_modes) :
                inst.curr_modes[i] = ModeDigit(FetchedWord, i)
    /\ (Decoded /\ phase /= "read") =>
          /\ Len(inst.curr_modes) = Len(RawParams)
          /\ \A i \in 1..Len(RawParams) :
                /\ ModeDigit(FetchedWord, i) = IMMEDIATE_MODE =>
                      inst.operation_values[i] = RawParams[i]
                /\ ModeDigit(FetchedWord, i) = POSITION_MODE =>
                      inst.register_values[i] = RawParams[i]
                /\ ModeDigit(FetchedWord, i) = RELATIVE_MODE =>
                      inst.register_values[i] = before.relative_base + RawParams[i]

\* three parameters were resolved in three different modes
C4_Witness ==
    /\ phase = "exec"
    /\ inst.curr_modes = <<RELATIVE_MODE, IMMEDIATE_MODE, POSITION_MODE>>
    /\ before.relative_base /= 0

\* read_registers has returned for the fetched word and exec has not run
Resolved == phase = "exec" /\ exc = "none"

\* C5: a read operand with raw value r is r in immediate mode, memory[r] in
\* position mode and memory[relative_base + r] in relative mode, with the
\* relative_base in force when the instruction is fetched (an address of
\* Memory being a non-negative index, and a cell beyond the end reading 0).
C5_OperandValues ==
    Resolved =>
       \A i \in 1..Len(RawParams) :
          LET m == ModeDigit(FetchedWord, i)
              r == RawParams[i]
          IN  /\ m = IMMEDIATE_MODE => inst.operation_values[i] = r
              /\ (m = POSITION_MODE /\ r >= 0) =>
                    inst.operation_values[i] = Cell(before.memory, r)
              /\ (m = RELATIVE_MODE /\ before.relative_base + r >= 0) =>
                    inst.operation_values[i] =
                       Cell(before.memory, before.relative_base + r)

\* a relative-mode operand was read through a non-zero relative_base, next
\* to an immediate and a position operand with the same raw value
C5_Witness ==
    /\ Resolved
    /\ Len(RawParams) = 3
    /\ before.relative_base /= 0
    /\ inst.curr_modes = <<POSITION_MODE, RELATIVE_MODE, IMMEDIATE_MODE>>
    /\ RawParams[1] = 1 /\ RawParams[2] = 1 /\ RawParams[3] = 1
    /\ inst.operation_values[1] /= inst.operation_values[2]
    /\ inst.operation_values[2] /= inst.operation_values[3]

\* the position of the destination parameter of the completed instruction
DestParam == IF inst.opcode = 3 THEN 1 ELSE 3

\* the value the completed instruction had to store
StoredValue ==
    LET a == inst.operation_values[1]
        b == inst.operation_values[2]
    IN  CASE inst.opcode = 1 -> a + b
          [] inst.opcode = 2 -> a * b
          [] inst.opcode = 3 -> Head(before.input_stream)
          [] inst.opcode = 7 -> IF a < b THEN 1 ELSE 0
          [] inst.opcode = 8 -> IF a = b THEN 1 ELSE 0

\* C6: the write of Add, Multiply, LessThan, Equals (third parameter) and
\* Input (its parameter) lands at the effective address, r in position mode
\* and relative_base + r in relative mode, not at the value stored there.
C6_DestinationAddress ==
    (/\ Completed({1, 2, 3, 7, 8})
     /\ ModeDigit(FetchedWord, DestParam) \in {POSITION_MODE, RELATIVE_MODE}
     /\ EffectiveAddr(DestParam) >= 0) =>
       /\ Len(memory) > EffectiveAddr(DestParam)
       /\ memory[EffectiveAddr(DestParam) + 1] = StoredValue
       /\ OnlyWritten(EffectiveAddr(DestParam) + 1)

\* a relative-mode destination was written at relative_base + r, a cell
\* whose old content differs from that address and from r
C6_Witness ==
    /\ Completed({1, 2, 3, 7, 8})
    /\ ModeDigit(FetchedWord, DestParam) = RELATIVE_MODE
    /\ before.relative_base /= 0
    /\ EffectiveAddr(DestParam) >= 0
    /\ memory /= before.memory
    /\ Cell(before.memory, EffectiveAddr(DestParam)) /= EffectiveAddr(DestParam)

\* the effective addresses read_registers computed for the fetched word
ResolvedAddrs ==
    {EffectiveAddr(i) : i \in {j \in 1..Len(inst.curr_modes) :
                                 inst.curr_modes[j] \in {POSITION_MODE, RELATIVE_MODE}}}

\* read_registers has returned or raised for the fetched word
AfterReadRegisters ==
    /\ inst.opcode /= -1
    /\ \/ phase = "exec"
       \/ phase = "read" /\ exc /= "none"

\* C8: a position- or relative-mode parameter that resolves to an address
\* a >= len(memory) grows memory to exactly a + 1 cells, the new cells are 0,
\* no existing cell changes value, and the length of memory never decreases.
C8_MemoryGrowth ==
    /\ Len(memory) >= Len(before.memory)
    /\ AfterReadRegisters =>
          /\ \A a \in ResolvedAddrs : Len(memory) >= a + 1
          /\ \/ Len(memory) = Len(before.memory)
             \/ \E a \in ResolvedAddrs : Len(memory) = a + 1
          /\ \A j \in 1..Len(memory) : memory[j] = Cell(before.memory, j - 1)

\* read_registers has grown memory for a parameter past the end
C8_Witness ==
    /\ AfterReadRegisters
    /\ Len(memory) > Len(before.memory)
    /\ Len(memory) = FarAddr + 1

\* exec of the fetched instruction has returned or raised
AfterExec == inst.opcode /= -1 /\ phase = "fetch"

\* C7: an instruction whose destination parameter is in immediate mode
\* faults: it writes no memory cell and execution does not continue.
C7_ImmediateDestinationFaults ==
    (/\ AfterExec
     /\ inst.opcode \in {1, 2, 3, 7, 8}
     /\ exc /= "WaitingForInputException"
     /\ Len(RawParams) >= DestParam
     /\ ModeDigit(FetchedWord, DestParam) = IMMEDIATE_MODE) =>
       /\ exc \in FaultExceptions
       /\ memory = before.memory

\* the fetch or a parameter of the current instruction used a negative address
NegativeAccess ==
    \/ before.pc < 0
    \/ /\ inst.opcode /= -1
       /\ \E i \in 1..Len(RawParams) :
             \/ ModeDigit(FetchedWord, i) \in {POSITION_MODE, RELATIVE_MODE}
                   /\ EffectiveAddr(i) < 0
             \/ ModeDigit(FetchedWord, i) = IMMEDIATE_MODE /\ RawParams[i] < 0

\* C9: no read or write at a non-negative address fails due to bounds, the
\* fetch at program_counter and the fetch of the parameter words at or past
\* the end of memory included: memory behaves as infinite and zero-filled.
C9_NoBoundsFailure ==
    exc = "IndexError" => NegativeAccess

\* C10: a read or write at a negative effective address (position-mode raw
\* value, relative_base + r, or a negative jump target used for the next
\* fetch) is an immediate fatal fault: no cell at a wrapped-around index is
\* read or written and execution stops.
C10_NegativeAddressFaults ==
    /\ (nfetch > 0 /\ before.pc < 0) =>
          /\ exc \in FaultExceptions
          /\ inst = NoInst
    /\ ((AfterReadRegisters \/ AfterExec) /\ \E a \in ResolvedAddrs : a < 0) =>
          /\ exc \in FaultExceptions
          /\ memory = before.memory

\* the raw values of the parameters the fetched word resolved in immediate mode
ImmediateRaws ==
    {RawParams[i] : i \in {j \in 1..Len(inst.curr_modes) :
                              inst.curr_modes[j] = IMMEDIATE_MODE}}

\* C11: resolving a parameter in immediate mode never changes the length of
\* memory, whatever its raw value: after read_registers memory is longer than
\* at the fetch only by a position- or relative-mode address at or past the
\* end, and is as long as at the fetch when every parameter was immediate.
C11_ImmediateKeepsLength ==
    AfterReadRegisters =>
       /\ Len(memory) > Len(before.memory) =>
             \E a \in ResolvedAddrs : a >= Len(before.memory) /\ Len(memory) = a + 1
       /\ ResolvedAddrs = {} => memory = before.memory

\* an immediate parameter with a raw value past the end of memory was
\* resolved, no other mode was used, and memory kept its length
C11_Witness ==
    /\ AfterReadRegisters
    /\ exc = "none"
    /\ ResolvedAddrs = {}
    /\ \E r \in ImmediateRaws : r >= Len(before.memory)
    /\ Len(memory) = Len(before.memory)

\* read_registers has returned for the word fetched right after a completed
\* AdjustRelativeBase
AfterAdjust == Decoded /\ phase /= "read" /\ before.prev.opcode = 9

\* C12: AdjustRelativeBase with operand k executed when relative_base = B
\* leaves relative_base = B + k (and the memory cells as they were, with
\* program_counter = p + 2); a relative-mode parameter with raw value r of
\* the instruction that follows resolves to address B + k + r; no other
\* instruction, and no resume, changes relative_base.
C12_RelativeBase ==
    /\ Completed({9}) =>
          /\ relative_base = before.relative_base + inst.operation_values[1]
          /\ pc = before.pc + 2
          /\ OnlyWritten(0)
    /\ AfterAdjust =>
          LET B == before.prev.relative_base
              k == before.prev.operation_values[1]
          IN  \A i \in 1..Len(RawParams) :
                 ModeDigit(FetchedWord, i) = RELATIVE_MODE =>
                    /\ inst.register_values[i] = B + k + RawParams[i]
                    /\ B + k + RawParams[i] >= 0 =>
                          inst.operation_values[i] =
                             Cell(before.memory, B + k + RawParams[i])
    /\ relative_base /= before.relative_base => Completed({9})

\* a relative-mode parameter was resolved right after an AdjustRelativeBase
\* that moved a non-zero relative_base by a non-zero operand
C12_Witness ==
    /\ AfterAdjust
    /\ exc = "none"
    /\ before.prev.relative_base /= 0
    /\ before.prev.operation_values[1] /= 0
    /\ relative_base = before.prev.relative_base + before.prev.operation_values[1]
    /\ \E i \in 1..Len(RawParams) :
          /\ ModeDigit(FetchedWord, i) = RELATIVE_MODE
          /\ inst.register_values[i] = relative_base + RawParams[i]
          /\ inst.register_values[i] /= RawParams[i]

\* C13: fetching at address p a word whose value % 100 is none of 1..9 and
\* 99 raises the decode fault, which is fatal: no instruction is built or
\* executed, memory, relative_base and the queues are as before the fetch,
\* program_counter = p + 1 and the machine takes no further step.
C13_DecodeFault ==
    /\ (/\ nfetch > 0
        /\ PyInRange(before.memory, before.pc)
        /\ FetchedWord % 100 \notin {1, 2, 3, 4, 5, 6, 7, 8, 9, 99}) =>
          exc = "Exception"
    /\ exc = "Exception" =>
          /\ FetchedWord % 100 \notin {1, 2, 3, 4, 5, 6, 7, 8, 9, 99}
          /\ inst = NoInst
          /\ memory = before.memory
          /\ relative_base = before.relative_base
          /\ input_stream = before.input_stream
          /\ output_stream = before.output_stream
          /\ pc = before.pc + 1
          /\ ~ENABLED Next

\* a word that is no instruction was fetched after another instruction had
\* moved relative_base
C13_Witness ==
    /\ exc = "Exception"
    /\ nfetch > 1
    /\ before.relative_base /= 0
    /\ pc = before.pc + 1

\* read_registers has raised while it resolved the operands of the fetched word
ResolutionFault ==
    /\ inst.opcode /= -1
    /\ phase = "read"
    /\ exc \in FaultExceptions

\* C14 as stated: if an instruction faults while its operands are being
\* resolved, memory (contents and length) is exactly what it was before that
\* instruction was fetched.
C14_FaultKeepsMemory ==
    ResolutionFault => memory = before.memory

\* C14, amended: if an instruction faults while its operands are being
\* resolved, every cell that existed before the fetch holds the value it had
\* and every cell created for an earlier operand of that instruction is 0
\* (so the length may have grown); relative_base and the queues are as
\* before the fetch.
C14_FaultKeepsCells ==
    ResolutionFault =>
       /\ Len(memory) >= Len(before.memory)
       /\ OnlyWritten(0)
       /\ relative_base = before.relative_base
       /\ input_stream = before.input_stream
       /\ output_stream = before.output_stream

\* the second operand faulted after the first one had grown memory
C14_Witness ==
    /\ ResolutionFault
    /\ Len(inst.curr_modes) >= 2
    /\ Len(memory) > Len(before.memory)
    /\ SubSeq(memory, 1, Len(before.memory)) = before.memory

\* ReadInput.exec found the queue empty and exec_program was left by
\* WaitingForInputException
WaitingForInput == exc = "WaitingForInputException"

\* C15: when an Input instruction at address p finds the input queue empty
\* the run stops with WaitingForInputException in a state where
\* program_counter = p, no input value was consumed, relative_base and the
\* value of every memory cell are as before the fetch, and the word the next
\* resume fetches at program_counter is that same Input word.
C15_WaitingRewinds ==
    WaitingForInput =>
       /\ inst.opcode = 3
       /\ phase = "fetch"
       /\ pc = before.pc
       /\ before.input_stream = <<>>
       /\ input_stream = <<>>
       /\ output_stream = before.output_stream
       /\ relative_base = before.relative_base
       /\ Len(memory) >= Len(before.memory)
       /\ OnlyWritten(0)
       /\ PyInRange(memory, pc)
       /\ PyGet(memory, pc) = FetchedWord

\* the machine as a record, and the machine at the last fetch
Current ==
    [memory |-> memory, pc |-> pc, relative_base |-> relative_base,
     input_stream |-> input_stream, output_stream |-> output_stream,
     yield_on_output |-> yield_on_output, exc |-> exc,
     exit_value |-> exit_value, taken |-> hist.taken]

AtFetch ==
    [memory |-> before.memory, pc |-> before.pc,
     relative_base |-> before.relative_base,
     input_stream |-> before.input_stream, output_stream |-> before.output_stream,
     yield_on_output |-> yield_on_output, exc |-> "none",
     exit_value |-> <<>>, taken |-> hist.taken]

\* the iteration of the loop that began at the last fetch is over, and
\* run_program has not resumed the machine since
IterationOver ==
    /\ nfetch > 0
    /\ \/ exc /= "none"
       \/ phase = "fetch" /\ inst.opcode /= -1

\* LoopBody computes what Fetch, ReadRegisters and Exec do in turn, and
\* RunProgram what every run does from its initial program
LoopBodyAgrees ==
    /\ IterationOver => Current = LoopBody(AtFetch)
    /\ ((phase = "fetch" \/ exc /= "none") /\ exc /= "YieldAfterOutputException") =>
          Current = RunProgram(Machine(hist.program, <<>>, yield_on_output),
                               hist.supplied, nfetch)

\* the run has ended with a halt or a fault
Ended(m) == m.exc \in {"HaltException"} \cup FaultExceptions

\* every output of the run in order: those taken and those still queued
Outputs(m) == m.taken \o m.output_stream

\* the same final machine state and the same outputs in the same order
SameFinalState(x, y) ==
    /\ x.exc = y.exc
    /\ x.exit_value = y.exit_value
    /\ x.memory = y.memory
    /\ x.pc = y.pc
    /\ x.relative_base = y.relative_base
    /\ Outputs(x) = Outputs(y)

\* the run of the same program that is never suspended for input: every
\* value supplied so far is in the input queue from the start
Uninterrupted ==
    RunProgram(Machine(hist.program, hist.supplied, yield_on_output),
               <<>>, MaxFetch)

\* C16: a run that was suspended with WaitingForInputException any number
\* of times and resumed with one value each time ends in the same halted
\* state (memory, program_counter, relative_base, outputs in order) as the
\* uninterrupted run of the same program with those values queued from the
\* start.
C16_ResumeEquivalence ==
    (/\ Ended(Current)
     /\ exc = "HaltException" \/ Uninterrupted.exc = "HaltException") =>
       SameFinalState(Current, Uninterrupted)

\* WriteOutput.exec has put its value and exec_program was left by
\* YieldAfterOutputException
Paused == exc = "YieldAfterOutputException"

\* run_program has taken the output and the machine is about to continue
ResumedAfterOutput ==
    /\ nfetch > 0
    /\ phase = "fetch"
    /\ exc = "none"
    /\ inst = NoInst
    /\ InstOpcode(FetchedWord) = 4

\* the pause and what precedes it: exactly one value was appended, the
\* machine is at p + 2 and nothing else moved
PauseState ==
    /\ (yield_on_output /\ Completed({4})) => Paused
    /\ Paused =>
          /\ yield_on_output
          /\ inst.opcode = 4
          /\ phase = "fetch"
          /\ output_stream = Append(before.output_stream, inst.operation_values[1])
          /\ pc = before.pc + 2
          /\ relative_base = before.relative_base
          /\ input_stream = before.input_stream
          /\ OnlyWritten(0)
    /\ ResumedAfterOutput =>
          /\ pc = before.pc + 2
          /\ output_stream = before.output_stream
          /\ hist.taken /= <<>>
    /\ yield_on_output => Len(output_stream) <= 1

\* the steps around it: only an Output changes the queue, by one value; the
\* resume takes exactly that value and moves nothing of the machine; the
\* fetch after the resume is made at p + 2
PauseStep ==
    /\ (yield_on_output /\ output_stream' /= output_stream /\ ~Paused) =>
          /\ exc' = "YieldAfterOutputException"
          /\ Len(output_stream') = Len(output_stream) + 1
          /\ hist' = hist
    /\ Paused =>
          /\ hist'.taken = Append(hist.taken, inst.operation_values[1])
          /\ output_stream' = before.output_stream
          /\ <<memory', pc', relative_base', input_stream'>> =
                <<memory, pc, relative_base, input_stream>>
          /\ exc' = "none"
    /\ ~Paused => hist'.taken = hist.taken
    /\ (ResumedAfterOutput /\ nfetch' /= nfetch) => before'.pc = before.pc + 2

\* C17: with yield_on_output on, an Output instruction at address p appends
\* exactly one value to the output queue and then suspends with
\* program_counter = p + 2; the resume takes that one value and continues
\* at the next instruction, so over any number of pauses no output is
\* emitted twice and none is lost.
C17_PauseAfterOutput == []PauseState /\ [][PauseStep]_vars

\* the machine is paused for the second time: the first output was taken,
\* the second one is the only value queued
C17_Witness ==
    /\ Paused
    /\ Len(hist.taken) = 1
    /\ output_stream = <<inst.operation_values[1]>>
    /\ pc = before.pc + 2

\* the run of the same program, resumed with the same input values, under
\* the other output policy
OtherPolicy ==
    RunProgram(Machine(hist.program, <<>>, ~yield_on_output),
               hist.supplied, MaxFetch)

\* C18: a run with yield_on_output = True that is resumed after every pause
\* gives the same outputs in the same order, and ends in the same machine
\* state, as the run of the same program and inputs with yield_on_output =
\* False.
C18_PolicyEquivalence ==
    Ended(Current) =>
       /\ OtherPolicy.yield_on_output /= yield_on_output
       /\ SameFinalState(Current, OtherPolicy)
       /\ input_stream = OtherPolicy.input_stream

\* a run that paused twice has halted, and the run that never pauses has
\* both outputs in its queue
C18_Witness ==
    /\ yield_on_output
    /\ exc = "HaltException"
    /\ Len(hist.taken) = 2
    /\ output_stream = <<>>
    /\ OtherPolicy.taken = <<>>
    /\ OtherPolicy.output_stream = hist.taken

\* exec of an Input instruction was entered with no value in the queue
StarvedInput ==
    /\ inst.opcode = 3
    /\ phase \notin {"read", "exec"}
    /\ before.input_stream = <<>>

\* control is back with the caller of exec_program, by an exception or by
\* its return
ControlReturned == exc /= "none" \/ phase = "returned"

\* C19: in the queue-bound machines an Input instruction executed when no
\* input value is available never blocks, control returns to the caller of
\* exec_program; and a run returns control only at a blocked Input, an
\* Output under the pause policy, a halt or a fault.
C19_InputNeverBlocks ==
    /\ phase /= "blocked"
    /\ StarvedInput => ControlReturned
    /\ ControlReturned =>
          \/ exc = "WaitingForInputException" /\ StarvedInput
          \/ exc = "YieldAfterOutputException" /\ inst.opcode = 4 /\ yield_on_output
          \/ exc = "HaltException" /\ inst.opcode = 99
          \/ exc \in FaultExceptions

\* exec_program was left by HaltException
Halted == exc = "HaltException"

\* C20: when opcode 99 executes the run ends with HaltException, whose
\* exit_value is the content of memory[0] at that moment (not the first word
\* of the initial program); the halt changes no memory cell, not
\* relative_base and no queue, and nothing runs after it.
C20_Halt ==
    /\ (AfterExec /\ inst.opcode = 99) => Halted
    /\ Halted <=> exit_value /= <<>>
    /\ Halted =>
          /\ inst.opcode = 99
          /\ FetchedWord % 100 = 99
          /\ exit_value = <<memory[1]>>
          /\ memory = before.memory
          /\ relative_base = before.relative_base
          /\ input_stream = before.input_stream
          /\ output_stream = before.output_stream
          /\ pc = before.pc + 1
          /\ ~ENABLED Next

\* a run has halted after an instruction had rewritten memory[0]: the exit
\* value is the new content, and the last cell holds something else
C20_Witness ==
    /\ Halted
    /\ exit_value = <<memory[1]>>
    /\ memory[1] /= hist.program[1]
    /\ memory[1] /= memory[Len(memory)]

\* opcode 99 has executed on this machine at some time
HasHalted == exit_value /= <<>>

\* C21: Halted is terminal. Once opcode 99 has executed on a machine no
\* further instruction of it is fetched or executed, and its memory,
\* program_counter and relative_base (and its output queue) never change
\* again, also when the caller calls exec_program on it again.
C21_HaltedIsTerminal ==
    [][HasHalted =>
         /\ nfetch' = nfetch
         /\ memory' = memory
         /\ pc' = pc
         /\ relative_base' = relative_base
         /\ output_stream' = output_stream]_vars


(***************************************************************************)
(* Properties of the day7a.py and day7b.py amplifiers                      *)
(***************************************************************************)
\* every call of exec_program ends within MaxLoop iterations of its loop
CallsEnd == \A k \in DOMAIN ch_result : ch_result[k] /= "running"

\* no amplifier can be resumed
Quiescent == ch_next.stmt = "any" /\ \A k \in Amps : ~Suspended(k)

\* C22: in a chain where each machine's output queue is the next machine's
\* input queue, once no machine can make progress the output queue of the
\* last stage holds what it holds when the machines run in the order a, b,
\* c, d, e, whatever the order in which the suspended machines were resumed.
C22_OrderIndependent ==
    Quiescent => ch_queues[5] = InOrder(ch_lists[0], ch_perm, 1, <<0>>)

\* the Input of the current iteration takes a value from the queue and
\* stores it
InputStep ==
    /\ phase = "exec" /\ exc = "none" /\ inst.opcode = 3
    /\ input_stream /= <<>>
    /\ phase' = "fetch" /\ exc' = "none"

\* the Output of the current iteration puts a value in the output queue
OutputStep ==
    /\ phase = "exec" /\ exc = "none" /\ inst.opcode = 4
    /\ phase' = "fetch" /\ exc' \in {"none", "YieldAfterOutputException"}

\* the number of values the Input instructions have taken so far
InputsTaken == Len(hist.supplied) - Len(input_stream)

\* the operand of the Output being executed, read from the memory as it is now
OutputOperand ==
    LET m == ModeDigit(FetchedWord, 1)
        r == RawParams[1]
    IN  IF m = IMMEDIATE_MODE THEN r
        ELSE IF m = POSITION_MODE /\ r >= 0 THEN Cell(memory, r)
        ELSE IF m = RELATIVE_MODE /\ relative_base + r >= 0
        THEN Cell(memory, relative_base + r)
        ELSE inst.operation_values[1]

\* the program [3,0,4,0,99] run on the input queue [7]
SampleEchoRun == hist.program = <<3, 0, 4, 0, 99>> /\ hist.supplied = <<7>>

EchoState ==
    /\ SampleEchoRun =>
          /\ output_stream \in {<<>>, <<7>>}
          /\ HasHalted => output_stream = <<7>>
          /\ ~HasHalted => /\ exc \in {"none", "YieldAfterOutputException"}
                           /\ phase /= "blocked"
    /\ InputsTaken >= 0
    /\ input_stream = SubSeq(hist.supplied, InputsTaken + 1, Len(hist.supplied))

IoStep ==
    /\ InputStep =>
          /\ PyGet(memory', inst.register_values[1]) = hist.supplied[InputsTaken + 1]
          /\ InputsTaken' = InputsTaken + 1
    /\ OutputStep => output_stream' = Append(output_stream, OutputOperand)

\* C23: program [3,0,4,0,99] with input queue [7] emits exactly one output,
\* 7, and then halts; the k-th Input instruction executed stores the k-th
\* supplied value at its destination, and Output emits the value of its
\* operand as the memory holds it when the Output executes.
C23_InputOutput == []EchoState /\ [][IoStep]_vars

\* the program [3,0,4,0,99] has halted on the queue [7] with the output 7
C23_Witness ==
    /\ SampleEchoRun
    /\ exc = "HaltException"
    /\ output_stream = <<7>>
    /\ PyGet(memory, 0) = 7

(***************************************************************************)
(* Properties of day5.py                                                   *)
(***************************************************************************)
\* exec_program has left its loop
D5Ended == d5_exc \notin {"none", "idle"}

\* the first word is an Add or Multiply of two immediate operands, stored at 4
D5ImmediateArith == Len(d5_program) = 5 /\ d5_program[1] \in {1101, 1102}

\* the value the first instruction of such a program stores
D5Result ==
    IF d5_program[1] = 1101 THEN d5_program[2] + d5_program[3]
    ELSE d5_program[2] * d5_program[3]

\* C24: program [1101,100,-1,4,0] halts with memory[4] == 99: immediate
\* operands may be negative, the result of an Add (or Multiply) of two
\* immediate operands is written to the position-mode destination, and the
\* word just written at address 4 is the next one fetched, decoded as Halt
\* when its last two digits are 99.
C24_ImmediateAdd ==
    /\ (d5_program = <<1101, 100, -1, 4, 0>> /\ D5Ended) =>
          /\ d5_exc = "HaltException"
          /\ d5_memory = <<1101, 100, -1, 4, 99>>
          /\ d5_iter = 2
    /\ (D5ImmediateArith /\ d5_iter = 1) =>
          /\ d5_exc = "none"
          /\ d5_pc = 4
          /\ d5_memory = [d5_program EXCEPT ![5] = D5Result]
    /\ (D5ImmediateArith /\ d5_iter = 2) =>
          /\ d5_exc = "HaltException" <=> D5Result % 100 = 99
          /\ d5_memory = [d5_program EXCEPT ![5] = D5Result]

\* [1101,100,-1,4,0] has halted on the 99 it wrote at address 4
C24_Witness ==
    /\ d5_program = <<1101, 100, -1, 4, 0>>
    /\ d5_exc = "HaltException"
    /\ PyGet(d5_memory, 4) = 99
    /\ d5_pc = 5

(***************************************************************************)
(* Properties of test_prog1 of day9b.py, checked under SpecProg1           *)
(***************************************************************************)
\* s is an initial part of t
IsPrefix(s, t) == Len(s) <= Len(t) /\ s = SubSeq(t, 1, Len(s))

\* C25: the program [109,1,204,-1,1001,100,1,100,1008,100,16,101,1006,101,
\* 0,99] run with no input emits exactly its own 16 words, in order, as
\* successive outputs and then halts: the outputs are always an initial
\* part of the program, the run does not fault or block before the Halt,
\* and all 16 words have been emitted once it has halted.
C25_Quine ==
    hist.program = test_prog1_input =>
       /\ IsPrefix(output_stream, test_prog1_input)
       /\ HasHalted => output_stream = test_prog1_input
       /\ ~HasHalted => /\ exc \in {"none", "YieldAfterOutputException"}
                        /\ phase /= "blocked"

\* the program has halted after its 16 outputs
C25_Witness ==
    /\ hist.program = test_prog1_input
    /\ exc = "HaltException"
    /\ Len(output_stream) = 16
    /\ output_stream[16] = 99
    /\ Len(memory) = 102

(***************************************************************************)
(* Properties of the devices                                               *)
(***************************************************************************)
\* C26: delivering an output value to the device bound to the machine
\* always succeeds, and a machine bound to StdIoDevice can execute Output
\* repeatedly and Input repeatedly without the device raising: no device
\* call ends in StopIteration.
C26_DeviceNeverRaises == io_exc /= "StopIteration"

\* a value is sent to the cabinet
Sending == Len(ar_sent') > Len(ar_sent)

\* the value sent and, when it completes a group of three, the two values
\* sent before it
Sent == ar_sent'[Len(ar_sent')]
CompletesGroup == Len(ar_sent) % 3 = 2
GroupX == ar_sent[Len(ar_sent) - 1]
GroupY == ar_sent[Len(ar_sent)]

ScreenKept ==
    /\ ar_grid' = ar_grid
    /\ ar_ball_pos' = ar_ball_pos
    /\ ar_paddle_pos' = ar_paddle_pos

ChainFresh == \A k \in Amps : ch_result[k] = "none"

\* the driver is about to call exec_program on amplifier k
Calling(k) == ch_next.stmt = "exec_program" /\ ch_next.amp = k

\* every amplifier starts at pc 0 on a list equal to initial_input
ChainStart ==
    (ch_variant /= "none" /\ ChainFresh) =>
       \A k \in Amps : ch_pc[k] = 0 /\ AmpMachine(k).memory = ch_lists[0]

\* a call on amplifier k changes the memory and pc of no other amplifier,
\* nor initial_input
ChainStep ==
    \A k \in Amps :
       Calling(k) =>
          /\ ch_lists'[0] = ch_lists[0]
          /\ \A j \in Amps \ {k} :
                /\ ch_pc'[j] = ch_pc[j]
                /\ AmpMachine(j)'.memory = AmpMachine(j).memory

\* C28: every amplifier of day7a.py and day7b.py starts with pc = 0 and
\* owns its state: a call of exec_program on one amplifier changes neither
\* the memory nor the pc of another amplifier, nor the list initial_input
\* the memories were copied from.
C28_OwnState == []ChainStart /\ [][ChainStep]_vars

\* amplifier a has run and written its memory; b's memory and pc are as
\* they were constructed
C28_Witness ==
    /\ ch_variant = "day7b"
    /\ Calling(2)
    /\ ch_result[2] = "none"
    /\ ch_pc[1] /= 0
    /\ ch_lists[AmpMemRef(1)] /= ch_lists[0]
    /\ ch_lists[AmpMemRef(2)] = ch_lists[0]
    /\ ch_pc[2] = 0

(***************************************************************************)
(* Properties of day3a.py, checked under SpecDay3                          *)
(***************************************************************************)
\* the segments of a wire, as pairs of end points in the order walked
RECURSIVE Segments(_, _, _)
Segments(directions, i, from) ==
    IF i > Len(directions) THEN {}
    ELSE LET to == NewPoint(from, directions[i])
         IN  {[from |-> from, to |-> to,
               horiz |-> directions[i].cardinal_dir \in {"R", "L"}]}
               \cup Segments(directions, i + 1, to)

\* x lies between a and b, the two ends excluded or included
Between(a, x, b, strict) ==
    IF strict THEN Min(a, b) < x /\ x < Max(a, b)
    ELSE Min(a, b) <= x /\ x <= Max(a, b)

\* the points where a horizontal segment of wire a meets a vertical segment
\* of wire b: with strict, the points where the two cross (an end point of
\* neither), else all points the two have in common
Meetings(a, b, strict) ==
    {<<hv[2].from[1], hv[1].from[2]>> :
        hv \in {p \in Segments(a, 1, <<0, 0>>) \X Segments(b, 1, <<0, 0>>) :
                  /\ p[1].horiz /\ ~p[2].horiz
                  /\ Between(p[1].from[1], p[2].from[1], p[1].to[1], strict)
                  /\ Between(p[2].from[2], p[1].from[2], p[2].to[2], strict)}}

Crossings == Meetings(w3_wire1, w3_wire2, TRUE) \cup Meetings(w3_wire2, w3_wire1, TRUE)
CommonPoints == Meetings(w3_wire1, w3_wire2, FALSE) \cup Meetings(w3_wire2, w3_wire1, FALSE)

\* the expected results of the three asserts
SampleClosest ==
    CASE Len(w3_wire1) = 4 -> 6
      [] Len(w3_wire1) = 9 -> 159
      [] Len(w3_wire1) = 11 -> 135

\* C29: find_intersections returns exactly the points where a horizontal
\* segment of one wire crosses a vertical segment of the other: it returns
\* every such crossing, and every point it returns is common to a
\* horizontal segment of one wire and a vertical segment of the other;
\* find_intersection_dist_closest_to_origin returns the smallest Manhattan
\* distance of those points (6, 159 and 135 on the three sample pairs).
C29_Intersections ==
    w3_state = "returned" =>
       LET returned == {w3_intersections[j] : j \in 1..Len(w3_intersections)}
       IN  /\ Crossings \subseteq returned
           /\ returned \subseteq CommonPoints
           /\ w3_closest = ClosestValue(w3_intersections)
           /\ <<w3_wire1, w3_wire2>> \in SampleWires => w3_closest = <<SampleClosest>>

(***************************************************************************)
(* Properties of day12b.py, checked under SpecDay12                        *)
(***************************************************************************)
\* every moon is where it started, at rest
AtStart ==
    /\ mn_position = mn_start
    /\ mn_velocity = [m \in 1..Len(mn_start) |-> <<0, 0, 0>>]

\* the velocities of the moons along one dimension
VelVec(velocity, dim) == [m \in 1..Len(velocity) |-> velocity[m][dim + 1]]

\* the number find_global_loop returned is the first step at which every
\* moon is back at its start with velocity 0
LoopState ==
    mn_loop /= <<>> =>
       /\ mn_loop[1] > 0
       /\ mn_step = mn_loop[1] => AtStart
       /\ (0 < mn_step /\ mn_step < mn_loop[1]) => ~AtStart
       /\ mn_start = test_sim3 => mn_loop = <<2772>>

\* a tick changes the positions and velocities along each dimension as one
\* pass of find_dim_loop does
TickStep ==
    mn_step' = mn_step + 1 =>
       \A dim \in 0..2 :
          LET next == DimStep(get_pos_vec(mn_position, dim), VelVec(mn_velocity, dim))
          IN  /\ get_pos_vec(mn_position', dim) = next.pos
              /\ VelVec(mn_velocity', dim) = next.vel

\* C30: find_global_loop returns the smallest n > 0 such that after n
\* tick() steps every moon's position and velocity equal their initial
\* values (2772 for the first sample system), and the per-axis simulation
\* of calc_acc / find_dim_loop produces at each step the positions and
\* velocities of tick() along that axis.
C30_GlobalLoop == []LoopState /\ [][TickStep]_vars

\* the first sample system is back at its start after 2772 ticks
C30_Witness ==
    /\ mn_start = test_sim3
    /\ mn_loop = <<2772>>
    /\ mn_step = 2772
    /\ AtStart

(***************************************************************************)
(* Properties of day7a.py's exec_program called again after a wait,        *)
(* checked under SpecAnyOrder                                              *)
(***************************************************************************)
\* the pc of the instruction fetched last in a call of exec_program on m
RECURSIVE LastFetched(_, _, _)
LastFetched(m, at, fuel) ==
    IF m.exc /= "none" \/ fuel = 0
    THEN at
    ELSE LastFetched(LoopBodyDay7("day7a", m), m.pc, fuel - 1)

\* this step is a call of exec_program on amplifier k
Called(k) == ch_pc'[k] /= ch_pc[k]

\* a call that ends with an Input on an empty queue leaves the pc on that
\* Input
WaitKeepsInput(k) ==
    (Called(k) /\ ch_result'[k] = "WaitingForInputException") =>
        ch_pc'[k] = LastFetched(AmpMachine(k), ch_pc[k], MaxLoop)

\* a call on a machine that waited starts at an Input and takes the value
\* that was supplied
ResumeTakesInput(k) ==
    (Called(k) /\ ch_result[k] = "WaitingForInputException") =>
        /\ InstOpcode(PyGet(ch_lists[AmpMemRef(k)], ch_pc[k])) = 3
        /\ Len(ch_queues'[AmpIn(k)]) < Len(ch_queues[AmpIn(k)])

\* C31: in day7a, when an Input finds its queue empty and exec_program
\* returns, a later exec_program on the same machine executes that same
\* Input again: the pc is left on it, and the value supplied in between is
\* taken from the queue, so that no instruction is skipped.
C31_InputExecutedAgain ==
    [][\A k \in Amps : WaitKeepsInput(k) /\ ResumeTakesInput(k)]_vars

(***************************************************************************)
(* Properties of IntCodeComputer, checked under SpecComputer               *)
(***************************************************************************)
\* the machine of day11.py's exec_program after as many iterations of its
\* loop, started on the same program and input values and never pausing
QueueRun == RunProgram(Machine(hist.program, hist.supplied, FALSE), <<>>, nfetch)

\* C32: IntCodeComputer.exec_program passes through the same memory,
\* program counter and relative base and has sent the same outputs as
\* day11.py's exec_program run without pausing, after each iteration of the
\* loop.
C32_SameStates ==
    /\ memory = QueueRun.memory
    /\ pc = QueueRun.pc
    /\ relative_base = QueueRun.relative_base
    /\ output_stream = QueueRun.output_stream

(***************************************************************************)
(* Properties of day7b.py's feedback loop, checked under FairSpecChain     *)
(***************************************************************************)
\* no Input was executed on an empty queue
NoInputOnEmpty ==
    /\ \A k \in Amps : ch_result[k] /= "blocked"
    /\ ch_next.stmt /= "blocked"

\* the loop of the driver has ended on the HaltException of amplifier a
EndedOnHaltOfA ==
    /\ ch_next = Stmt("done", 0)
    /\ ch_result[1] = "HaltException"

\* C33: in day7b's feedback loop, with the phases and the signal 0 in the
\* queues and the driver calling a, b, c, d, e in rounds, no Input is ever
\* executed on an empty queue and the loop eventually ends, when amplifier
\* a halts.
C33_FeedbackLoopEnds ==
    /\ [](ch_variant = "day7b" => NoInputOnEmpty)
    /\ (ch_variant = "day7b" => <>EndedOnHaltOfA)

\* the loop has ended for the phases 9, 8, 7, 6, 5 of the first example
C33_Witness ==
    /\ ch_variant = "day7b"
    /\ ch_perm = <<9, 8, 7, 6, 5>>
    /\ EndedOnHaltOfA
    /\ max_value = 139629729

\* the values amplifier e has put in its output queue are not kept once
\* amplifier a has taken them; the last one is in the queue when the loop
\* has ended
LastOfE == ch_queues[AmpOut(ch_variant, 5)][Len(ch_queues[AmpOut(ch_variant, 5)])]

\* C34: in day7b, what a phase order contributes to max_value is the final
\* output of amplifier e, the last value it emitted before the loop ended.
C34_FinalOutput ==
    (ch_variant = "day7b" /\ EndedOnHaltOfA) =>
        /\ ch_queues[AmpOut(ch_variant, 5)] /= <<>>
        /\ max_value = LastOfE

(***************************************************************************)
(* Properties of the paint robot of day11.py, checked under SpecRobot      *)
(***************************************************************************)
\* run_program receives the second value of a pair
CompletesPair == exc = "YieldAfterOutputException" /\ exc' = "none" /\ pr_colour /= <<>>

\* the panel one step from <<x, y>> in direction dir
OneStep(x, y, dir) ==
    <<x + (IF dir = 1 THEN 1 ELSE IF dir = 3 THEN -1 ELSE 0),
      y + (IF dir = 0 THEN 1 ELSE IF dir = 2 THEN -1 ELSE 0)>>

\* a step of the paint robot: on a complete pair the panel under the robot
\* gets the colour, the robot turns left for 0 and right for 1 and goes one
\* panel in the new direction; on any other step no panel changes colour
\* and the robot stays as it is
PairStep ==
    IF CompletesPair
    THEN LET turn == Head(output_stream)
         IN  /\ <<<<pr_x, pr_y>>, pr_colour[1]>> \in pr_grid'
             /\ \A item \in pr_grid' :
                   item[1] /= <<pr_x, pr_y>> => item \in pr_grid
             /\ turn = 0 => pr_dir' = (pr_dir + 3) % 4
             /\ turn = 1 => pr_dir' = (pr_dir + 1) % 4
             /\ <<pr_x', pr_y'>> = OneStep(pr_x, pr_y, pr_dir')
    ELSE /\ \A item \in pr_grid : item \in pr_grid'
         /\ \A item \in pr_grid' : item \in pr_grid \/ item[2] = 0
         /\ UNCHANGED <<pr_x, pr_y, pr_dir, pr_painted>>

\* C35: the paint robot consumes the outputs in pairs (colour, turn): on
\* each complete pair it sets the panel it stands on to the colour, turns
\* left for turn 0 or right for turn 1 and advances one panel in the new
\* direction; a colour whose turn never arrives paints nothing, and the
\* position and direction change only on a complete pair.
C35_PaintsInPairs == [][PairStep]_vars

\* FlipAndTurn has halted after five pairs, the robot back on a panel it
\* painted before
C35_Witness ==
    /\ hist.program = FlipAndTurn
    /\ exc = "HaltException"
    /\ Len(hist.taken) = 10
    /\ Cardinality(pr_painted) = 4
    /\ <<pr_x, pr_y>> \in pr_painted

\* the queues hold at most one value each, and a value waiting in the input
\* queue is the colour of the panel under the robot
QueuesOfRobot ==
    /\ Len(input_stream) <= 1
    /\ Len(output_stream) <= 1
    /\ input_stream /= <<>> => <<<<pr_x, pr_y>>, Head(input_stream)>> \in pr_grid

\* every suspension on WaitingForInputException is answered with one value,
\* and the queue gets a value on no other step
SupplyStep ==
    IF exc = "WaitingForInputException" /\ exc' = "none"
    THEN Len(input_stream') = Len(input_stream) + 1
    ELSE Len(input_stream') <= Len(input_stream)

\* C36: in run_program every value the machine reads is the colour of the
\* panel under the robot at the moment the Input suspended, exactly one
\* value is supplied per WaitingForInputException, and the input queue and
\* the output queue each hold at most one value in every reachable state.
C36_OneColourPerWait == []QueuesOfRobot /\ [][SupplyStep]_vars

\* the Input of FlipAndTurn is about to read the colour of the start panel,
\* which was white, after the robot painted it black and came back to it
C36_Witness ==
    /\ hist.program = FlipAndTurn
    /\ phase = "exec" /\ inst.opcode = 3
    /\ input_stream = <<BLACK>>
    /\ <<pr_x, pr_y>> = <<0, 0>>
    /\ <<0, 0>> \in pr_painted

\* C37: when the paint program halts, the total printed as "Painted a total
\* of N tiles" is the number of distinct panels the robot painted at least
\* once during the run.
C37_TotalIsPainted ==
    pr_total /= <<>> => pr_total[1] = Cardinality(pr_painted)

(***************************************************************************)
(* Properties of the joystick of day13.py, checked under SpecArcade        *)
(***************************************************************************)
\* the <<x, y>> of the last complete group of sent that drew the tile, <<>>
\* when there is none; a group with x = -1 and y = 0 sets the score and
\* draws nothing
RECURSIVE LastDrawn(_, _, _)
LastDrawn(sent, tile, n) ==
    IF n = 0 THEN <<>>
    ELSE IF sent[3 * n] = tile /\ ~(sent[3 * n - 2] = -1 /\ sent[3 * n - 1] = 0)
    THEN <<sent[3 * n - 2], sent[3 * n - 1]>>
    ELSE LastDrawn(sent, tile, n - 1)

BallDrawn == LastDrawn(ar_sent, 4, Len(ar_sent) \div 3)
PaddleDrawn == LastDrawn(ar_sent, 3, Len(ar_sent) \div 3)

\* an Input reads -1, 1 or 0 as the paddle is right of, left of or under
\* the ball
ReadsChase ==
    (Len(ar_read') = Len(ar_read) + 1 /\ BallDrawn /= <<>> /\ PaddleDrawn /= <<>>) =>
        ar_read'[Len(ar_read')] =
           (IF PaddleDrawn[1] > BallDrawn[1] THEN -1
            ELSE IF PaddleDrawn[1] < BallDrawn[1] THEN 1 ELSE 0)

\* C38: in the arcade cabinet, an Input executed after both a ball and a
\* paddle have been drawn reads -1 if paddle x > ball x, 1 if paddle x <
\* ball x and 0 if they are equal, the positions being those of the most
\* recent complete (x, y, tile) groups output before that Input.
C38_JoystickChasesBall == [][ReadsChase]_vars

\* an Input has read -1 with the ball drawn at x = 0 and the paddle at x = 3
C38_Witness ==
    /\ ar_sent = <<0, 0, 4, 3, 0, 3>>
    /\ ar_read = <<-1>>

(***************************************************************************)
(* Properties of the mode digits of day5.py, checked under SpecDay5        *)
(***************************************************************************)
\* the instruction word at the pc has, among the digits of its parameters,
\* one that is neither 0 nor 1
UndefinedModeAtPc ==
    /\ PyInRange(d5_memory, d5_pc)
    /\ LET word == PyGet(d5_memory, d5_pc)
       IN  /\ word > 0
           /\ word % 100 \in {1, 2, 3, 4, 5, 6, 7, 8}
           /\ \E i \in 1..ParamCount(word % 100) :
                 ((word \div 100) \div (IF i = 1 THEN 1 ELSE IF i = 2 THEN 10 ELSE 100))
                     % 10 \notin {0, 1}

\* the iteration on such a word ends with an exception and writes no cell
UndefinedModeFaults ==
    (d5_exc = "none" /\ d5_iter' = d5_iter + 1 /\ UndefinedModeAtPc) =>
        /\ d5_exc' \notin {"none", "HaltException"}
        /\ d5_memory' = d5_memory

\* C39: an instruction word with a parameter mode digit that the variant
\* does not define (outside {0, 1} in day5.py) faults without writing any
\* memory cell; it never executes with a missing or shifted operand.
C39_UndefinedModeFaults == [][UndefinedModeFaults]_vars

(***************************************************************************)
(* day6b.py: the orbit map and the distance from YOU to SAN.  A line       *)
(* "orbitee)orbiter" of input.txt is the pair <<orbitee, orbiter>>.        *)
(***************************************************************************)
\* bound: the orbit maps have at most MaxPlanets objects besides COM, YOU
\* and SAN
MaxPlanets == 3

PlanetNames == <<"A", "B", "C", "D", "E", "F">>

Planets == {PlanetNames[i] : i \in 1..MaxPlanets}

\* parent reaches COM from x in at most n steps
ReachesCOM(parent, x, n) ==
    LET RECURSIVE Up(_, _)
        Up(y, k) == IF y = "COM" THEN TRUE
                    ELSE IF k = 0 THEN FALSE
                    ELSE Up(parent[y], k - 1)
    IN  Up(x, n)

\* the orbit trees: every object orbits one object and reaches COM; YOU and
\* SAN are orbited by nothing
OrbitTrees ==
    UNION {{parent \in [S \cup {"YOU", "SAN"} -> S \cup {"COM"}] :
               \A x \in DOMAIN parent :
                   ReachesCOM(parent, x, Cardinality(S) + 1)} :
           S \in SUBSET Planets}

\* the lines of input.txt for an orbit tree
LinesOf(parent) ==
    LET keys == SelectSeq(PlanetNames \o <<"YOU", "SAN">>,
                          LAMBDA k : k \in DOMAIN parent)
    IN  [i \in 1..Len(keys) |-> <<parent[keys[i]], keys[i]>>]

\* orbits = {'COM': None}, then orbits[orbiter] = orbitee for each line
build_orbits_from_inputs(inputs) ==
    LET RECURSIVE Build(_, _)
        Build(orbits, i) ==
            IF i > Len(inputs) THEN orbits
            ELSE Build([k \in DOMAIN orbits \cup {inputs[i][2]} |->
                            IF k = inputs[i][2] THEN inputs[i][1] ELSE orbits[k]],
                       i + 1)
    IN  Build([k \in {"COM"} |-> "None"], 1)

\* the objects from the one start orbits up to COM, COM included
get_path_to_com(orbits, start) ==
    LET RECURSIVE Path(_, _)
        Path(path, curr) ==
            IF curr = "COM" THEN path
            ELSE Path(Append(path, orbits[curr]), orbits[curr])
    IN  Path(<<>>, start)

\* pops the common tail of both paths and appends the last object popped;
\* path[-1] of an emptied list raises IndexError
find_path_to_common_parent(path1, path2) ==
    LET RECURSIVE Loop(_, _, _)
        Loop(p1, p2, prev) ==
            IF p1 = <<>> \/ p2 = <<>>
            THEN [path1 |-> p1, path2 |-> p2, exc |-> "IndexError"]
            ELSE IF p1[Len(p1)] = p2[Len(p2)]
            THEN Loop(SubSeq(p1, 1, Len(p1) - 1), SubSeq(p2, 1, Len(p2) - 1),
                      p1[Len(p1)])
            ELSE [path1 |-> Append(p1, prev), path2 |-> Append(p2, prev),
                  exc |-> "none"]
    IN  Loop(path1, path2, "")

InitDay6 ==
    /\ o6_inputs \in {LinesOf(parent) : parent \in OrbitTrees}
    /\ o6_distance = <<>>
    /\ o6_exc = "none"
    /\ AllIdleExcept("o6")

\* the script from build_orbits_from_inputs to the print
Day6b ==
    /\ o6_exc = "none"
    /\ o6_distance = <<>>
    /\ LET built_orbits == build_orbits_from_inputs(o6_inputs)
           you_path == get_path_to_com(built_orbits, "YOU")
           san_path == get_path_to_com(built_orbits, "SAN")
           found == find_path_to_common_parent(you_path, san_path)
       IN  IF found.exc /= "none"
           THEN /\ o6_exc' = found.exc
                /\ o6_distance' = o6_distance
           ELSE /\ o6_exc' = o6_exc
                /\ o6_distance' = <<Len(found.path1) + Len(found.path2) - 2>>
    /\ UNCHANGED <<o6_inputs, not_o6>>

NextDay6 == Day6b

SpecDay6 == InitDay6 /\ [][NextDay6]_vars

(***************************************************************************)
(* Properties of day6b.py, checked under SpecDay6                          *)
(***************************************************************************)
\* the object that x orbits according to the lines
OrbitedBy(x) ==
    LET i == CHOOSE j \in 1..Len(o6_inputs) : o6_inputs[j][2] = x
    IN  o6_inputs[i][1]

\* x followed by the objects above it up to COM
ChainUp(x) ==
    LET RECURSIVE Up(_)
        Up(y) == IF y = "COM" THEN <<y>> ELSE <<y>> \o Up(OrbitedBy(y))
    IN  Up(x)

\* the number of orbital transfers between two objects of the tree: the
\* least number of steps up from both to an object above both
TreeDistance(p, q) ==
    LET up == ChainUp(p)
        uq == ChainUp(q)
        meets == {<<i, j>> \in (1..Len(up)) \X (1..Len(uq)) : up[i] = uq[j]}
        dists == {(m[1] - 1) + (m[2] - 1) : m \in meets}
    IN  CHOOSE d \in dists : \A e \in dists : d <= e

\* the script has printed or has ended on an exception
Day6Ended == o6_exc \notin {"idle", "none"} \/ o6_distance /= <<>>

\* one of the two orbited objects is above the other, or they are the same
OneAboveTheOther ==
    LET up == ChainUp(OrbitedBy("YOU"))
        uq == ChainUp(OrbitedBy("SAN"))
    IN  \/ \E i \in 1..Len(up) : up[i] = OrbitedBy("SAN")
        \/ \E j \in 1..Len(uq) : uq[j] = OrbitedBy("YOU")

\* C40: for every orbit tree containing YOU and SAN the script prints a
\* distance, and it is the number of orbital transfers between the object
\* YOU orbits and the object SAN orbits, also when one of the two is above
\* the other or they are the same object.
C40_PrintsTreeDistance ==
    Day6Ended =>
        /\ o6_exc = "none"
        /\ o6_distance = <<TreeDistance(OrbitedBy("YOU"), OrbitedBy("SAN"))>>

\* the distance is that of the tree whenever the two orbited objects are on
\* different branches
PrintsOnBranches ==
    (Day6Ended /\ ~OneAboveTheOther) =>
        /\ o6_exc = "none"
        /\ o6_distance = <<TreeDistance(OrbitedBy("YOU"), OrbitedBy("SAN"))>>

\* the script ends on IndexError whenever one is above the other
FaultsOnSameBranch ==
    (Day6Ended /\ OneAboveTheOther) => o6_exc = "IndexError"
====
